---------------------------- MODULE Spec2Model ----------------------------
(***************************************************************************)
(* A model of colmap/estimators/cost_functions.h: the residual functors,   *)
(* the isotropic-noise wrapper and the camera-model dispatcher, together   *)
(* with the parts of ceres and Eigen they are evaluated through.           *)
(*                                                                         *)
(* double is modelled as an exact rational <<n, d>> in lowest terms with   *)
(* d > 0, extended by the IEEE-754 specials <<1, 0>> (+inf), <<-1, 0>>     *)
(* (-inf) and <<0, 0>> (NaN).  Rounding and the sign of zero are not       *)
(* modelled.                                                               *)
(*                                                                         *)
(* Intermediate values are passed as operator arguments rather than bound  *)
(* by LET, so that each is computed once.                                  *)
(***************************************************************************)
EXTENDS Integers, Sequences, FiniteSets, TLC

(***************************************************************************)
(* double                                                                  *)
(***************************************************************************)
Abs(x) == IF x < 0 THEN -x ELSE x

Sgn(x) == IF x > 0 THEN 1 ELSE IF x < 0 THEN -1 ELSE 0

RECURSIVE GCD(_, _)
GCD(a, b) == IF b = 0 THEN a ELSE GCD(b, a % b)

Reduce(n, d, g) == <<(Sgn(d) * n) \div g, Abs(d) \div g>>

Rat(n, d) == IF d = 0 THEN <<Sgn(n), 0>> ELSE Reduce(n, d, GCD(Abs(n), Abs(d)))

Zero == <<0, 1>>
One == <<1, 1>>
Two == <<2, 1>>
NaN == <<0, 0>>
PosInf == <<1, 0>>

IsNaN(a) == a = NaN

IsFinite(a) == a[2] # 0

\* a + b of finite a and b, g being the greatest common divisor of their
\* denominators.
RAddOver(a, b, g) ==
    Rat(a[1] * (b[2] \div g) + b[1] * (a[2] \div g), (a[2] \div g) * b[2])

\* a * b of finite a and b, g1 and g2 being the common divisors across.
RMulCross(a, b, g1, g2) ==
    Rat((a[1] \div g1) * (b[1] \div g2), (a[2] \div g2) * (b[2] \div g1))

RAdd(a, b) ==
    IF IsNaN(a) \/ IsNaN(b) THEN NaN
    ELSE IF a[2] = 0 /\ b[2] = 0 THEN (IF a = b THEN a ELSE NaN)
    ELSE IF a[2] = 0 THEN a
    ELSE IF b[2] = 0 THEN b
    ELSE RAddOver(a, b, GCD(a[2], b[2]))

RNeg(a) == <<-a[1], a[2]>>

RSub(a, b) == RAdd(a, RNeg(b))

RMul(a, b) ==
    IF IsNaN(a) \/ IsNaN(b) THEN NaN
    ELSE IF a[2] = 0 \/ b[2] = 0
         THEN (IF a[1] = 0 \/ b[1] = 0 THEN NaN ELSE <<Sgn(a[1]) * Sgn(b[1]), 0>>)
    ELSE RMulCross(a, b, GCD(Abs(a[1]), b[2]), GCD(Abs(b[1]), a[2]))

RRecip(a) ==
    IF IsNaN(a) THEN NaN
    ELSE IF a[2] = 0 THEN Zero
    ELSE IF a[1] = 0 THEN PosInf
    ELSE Rat(a[2], a[1])

RDiv(a, b) == RMul(a, RRecip(b))

RGt(a, b) ==
    /\ ~IsNaN(a)
    /\ ~IsNaN(b)
    /\ a # b
    /\ IF a[2] = 0 THEN a[1] > 0
       ELSE IF b[2] = 0 THEN b[1] < 0
       ELSE a[1] * b[2] > b[1] * a[2]

(***************************************************************************)
(* The scalar type T of the functor templates: a ceres::Jet, a value a and *)
(* the partial derivatives v.  T = double is the jet with no derivatives;  *)
(* a missing derivative entry reads as zero.                               *)
(***************************************************************************)
Max(i, j) == IF i > j THEN i ELSE j

\* The sequence f as a tuple of evaluated elements.
Seq_(f) == f \o <<>>

Vi(x, i) == IF i <= Len(x.v) THEN x.v[i] ELSE Zero

T(c) == [a |-> c, v |-> <<>>]

JAdd(f, g) ==
    [a |-> RAdd(f.a, g.a),
     v |-> Seq_([i \in 1..Max(Len(f.v), Len(g.v)) |-> RAdd(Vi(f, i), Vi(g, i))])]

JNeg(f) == [a |-> RNeg(f.a), v |-> Seq_([i \in 1..Len(f.v) |-> RNeg(f.v[i])])]

JSub(f, g) ==
    [a |-> RSub(f.a, g.a),
     v |-> Seq_([i \in 1..Max(Len(f.v), Len(g.v)) |-> RSub(Vi(f, i), Vi(g, i))])]

JMul(f, g) ==
    [a |-> RMul(f.a, g.a),
     v |-> Seq_([i \in 1..Max(Len(f.v), Len(g.v)) |->
                    RAdd(RMul(f.a, Vi(g, i)), RMul(Vi(f, i), g.a))])]

JQuotient(f, g, g_a_inverse, f_a_by_g_a) ==
    [a |-> f_a_by_g_a,
     v |-> Seq_([i \in 1..Max(Len(f.v), Len(g.v)) |->
                    RMul(RSub(Vi(f, i), RMul(f_a_by_g_a, Vi(g, i))), g_a_inverse)])]

JDiv(f, g) == JQuotient(f, g, RRecip(g.a), RMul(f.a, RRecip(g.a)))

(***************************************************************************)
(* Eigen: 3-vectors are sequences <<x, y, z>>, a quaternion is a record    *)
(* [w, x, y, z], and its coefficient storage is the sequence <<x, y, z, w>>*)
(***************************************************************************)
EigenVector3Map(p) == <<p[1], p[2], p[3]>>

EigenQuaternionMap(p) == [x |-> p[1], y |-> p[2], z |-> p[3], w |-> p[4]]

\* A coefficient order with w first.
coeffs_wxyz(q) == <<q.w, q.x, q.y, q.z>>

coeffs(q) == <<q.x, q.y, q.z, q.w>>

vec(q) == <<q.x, q.y, q.z>>

VAdd(u, v) == <<JAdd(u[1], v[1]), JAdd(u[2], v[2]), JAdd(u[3], v[3])>>

VSub(u, v) == <<JSub(u[1], v[1]), JSub(u[2], v[2]), JSub(u[3], v[3])>>

VScale(s, v) == <<JMul(s, v[1]), JMul(s, v[2]), JMul(s, v[3])>>

cross(u, v) ==
    <<JSub(JMul(u[2], v[3]), JMul(u[3], v[2])),
      JSub(JMul(u[3], v[1]), JMul(u[1], v[3])),
      JSub(JMul(u[1], v[2]), JMul(u[2], v[1]))>>

Dot(u, v) == JAdd(JAdd(JMul(u[1], v[1]), JMul(u[2], v[2])), JMul(u[3], v[3]))

\* Quaternion * Vector3 (Eigen's _transformVector), uv being 2 (vec x v).
TransformVector(q, v, uv) == VAdd(VAdd(v, VScale(q.w, uv)), cross(vec(q), uv))

Twice(u) == VAdd(u, u)

QuatRotate(q, v) == TransformVector(q, v, Twice(cross(vec(q), v)))

\* Quaternion * Quaternion.
QuatMul(a, b) ==
    [w |-> JSub(JSub(JSub(JMul(a.w, b.w), JMul(a.x, b.x)), JMul(a.y, b.y)),
                JMul(a.z, b.z)),
     x |-> JSub(JAdd(JAdd(JMul(a.w, b.x), JMul(a.x, b.w)), JMul(a.y, b.z)),
                JMul(a.z, b.y)),
     y |-> JSub(JAdd(JAdd(JMul(a.w, b.y), JMul(a.y, b.w)), JMul(a.z, b.x)),
                JMul(a.x, b.z)),
     z |-> JSub(JAdd(JAdd(JMul(a.w, b.z), JMul(a.z, b.w)), JMul(a.x, b.y)),
                JMul(a.y, b.x))]

\* The rotation matrix from tx = 2x, ty = 2y, tz = 2z.
RotationFromTwice(q, tx, ty, tz) ==
    << <<JSub(T(One), JAdd(JMul(ty, q.y), JMul(tz, q.z))),
         JSub(JMul(ty, q.x), JMul(tz, q.w)),
         JAdd(JMul(tz, q.x), JMul(ty, q.w))>>,
       <<JAdd(JMul(ty, q.x), JMul(tz, q.w)),
         JSub(T(One), JAdd(JMul(tx, q.x), JMul(tz, q.z))),
         JSub(JMul(tz, q.y), JMul(tx, q.w))>>,
       <<JSub(JMul(tz, q.x), JMul(ty, q.w)),
         JAdd(JMul(tz, q.y), JMul(tx, q.w)),
         JSub(T(One), JAdd(JMul(tx, q.x), JMul(ty, q.y)))>> >>

toRotationMatrix(q) ==
    RotationFromTwice(q, JMul(T(Two), q.x), JMul(T(Two), q.y), JMul(T(Two), q.z))

Col(B, j) == <<B[1][j], B[2][j], B[3][j]>>

MatVec(A, x) == <<Dot(A[1], x), Dot(A[2], x), Dot(A[3], x)>>

transpose(A) == <<Col(A, 1), Col(A, 2), Col(A, 3)>>

MatMul(A, B) ==
    transpose(<<MatVec(A, Col(B, 1)), MatVec(A, Col(B, 2)), MatVec(A, Col(B, 3))>>)

castV(v) == Seq_([i \in 1..Len(v) |-> T(v[i])])

castQ(q) == [w |-> T(q.w), x |-> T(q.x), y |-> T(q.y), z |-> T(q.z)]

(***************************************************************************)
(* The camera models of colmap/sensor/models.h: a closed set, each with a  *)
(* model_id, a fixed num_params and a projection ImgFromCam.               *)
(***************************************************************************)
CameraModels ==
    {"SimplePinholeCameraModel", "PinholeCameraModel", "SimpleRadialCameraModel"}

model_id(CameraModel) ==
    CASE CameraModel = "SimplePinholeCameraModel" -> 0
      [] CameraModel = "PinholeCameraModel" -> 1
      [] CameraModel = "SimpleRadialCameraModel" -> 2

num_params(CameraModel) ==
    CASE CameraModel = "SimplePinholeCameraModel" -> 3
      [] CameraModel = "PinholeCameraModel" -> 4
      [] CameraModel = "SimpleRadialCameraModel" -> 4

\* The radial distortion of the normalized point (uu, vv), given k r^2.
Distortion(uu, vv, radial) == <<JMul(uu, radial), JMul(vv, radial)>>

\* The projection of the normalized point (uu, vv), given its distortion d.
ImgFromNormalized(CameraModel, params, uu, vv, d) ==
    CASE CameraModel = "SimplePinholeCameraModel" ->
           <<JAdd(JMul(params[1], uu), params[2]),
             JAdd(JMul(params[1], vv), params[3])>>
      [] CameraModel = "PinholeCameraModel" ->
           <<JAdd(JMul(params[1], uu), params[3]),
             JAdd(JMul(params[2], vv), params[4])>>
      [] CameraModel = "SimpleRadialCameraModel" ->
           <<JAdd(JMul(params[1], JAdd(uu, d[1])), params[2]),
             JAdd(JMul(params[1], JAdd(vv, d[2])), params[3])>>

ProjectNormalized(CameraModel, params, uu, vv) ==
    ImgFromNormalized(CameraModel, params, uu, vv,
        IF CameraModel = "SimpleRadialCameraModel"
        THEN Distortion(uu, vv, JMul(params[4], JAdd(JMul(uu, uu), JMul(vv, vv))))
        ELSE <<>>)

\* The pair <<*x, *y>> the projection writes through its output pointers.
ImgFromCam(CameraModel, params, u, v, w) ==
    ProjectNormalized(CameraModel, params, JDiv(u, w), JDiv(v, w))

(***************************************************************************)
(* The reprojection functors.  A functor instance is a record of its class,*)
(* its CameraModel and its members; operator() is the operator of the same *)
(* name, taking the instance and the parameter blocks and yielding the     *)
(* returned flag and the residuals written.                                *)
(***************************************************************************)
\* CameraModel::ImgFromCam(..., &residuals[0], &residuals[1])
WriteProjection(this, camera_params, point3D_in_cam) ==
    ImgFromCam(this.CameraModel, camera_params, point3D_in_cam[1],
               point3D_in_cam[2], point3D_in_cam[3])

\* residuals[0] -= T(observed_x_)
SubtractObservedX(this, residuals) ==
    <<JSub(residuals[1], T(this.observed_x_)), residuals[2]>>

\* residuals[1] -= T(observed_y_)
SubtractObservedY(this, residuals) ==
    <<residuals[1], JSub(residuals[2], T(this.observed_y_))>>

SubtractObserved(this, img) ==
    [ok |-> TRUE,
     residuals |-> SubtractObservedY(this, SubtractObservedX(this, img))]

ProjectAndSubtract(this, camera_params, point3D_in_cam) ==
    SubtractObserved(this, WriteProjection(this, camera_params, point3D_in_cam))

New_ReprojErrorCostFunctor(CameraModel, point2D) ==
    [class |-> "ReprojErrorCostFunctor", CameraModel |-> CameraModel,
     observed_x_ |-> point2D[1], observed_y_ |-> point2D[2]]

\* cam_from_world_rotation * point3D + cam_from_world_translation
PointInCam(cam_from_world_rotation, cam_from_world_translation, point3D) ==
    VAdd(QuatRotate(EigenQuaternionMap(cam_from_world_rotation),
                    EigenVector3Map(point3D)),
         EigenVector3Map(cam_from_world_translation))

ReprojErrorCostFunctor(this, cam_from_world_rotation, cam_from_world_translation, point3D, camera_params) ==
    ProjectAndSubtract(this, camera_params,
        PointInCam(cam_from_world_rotation, cam_from_world_translation, point3D))

New_ReprojErrorConstantPoseCostFunctor(CameraModel, cam_from_world, point2D) ==
    [class |-> "ReprojErrorConstantPoseCostFunctor", CameraModel |-> CameraModel,
     cam_from_world_ |-> cam_from_world,
     reproj_cost_ |-> New_ReprojErrorCostFunctor(CameraModel, point2D)]

ReprojErrorConstantPoseCostFunctor(this, point3D, camera_params) ==
    ReprojErrorCostFunctor(this.reproj_cost_,
                           coeffs(castQ(this.cam_from_world_.rotation)),
                           castV(this.cam_from_world_.translation),
                           point3D, camera_params)

New_ReprojErrorConstantPoint3DCostFunctor(CameraModel, point2D, point3D) ==
    [class |-> "ReprojErrorConstantPoint3DCostFunctor", CameraModel |-> CameraModel,
     point3D_ |-> point3D,
     reproj_cost_ |-> New_ReprojErrorCostFunctor(CameraModel, point2D)]

ReprojErrorConstantPoint3DCostFunctor(this, cam_from_world_rotation, cam_from_world_translation, camera_params) ==
    ReprojErrorCostFunctor(this.reproj_cost_, cam_from_world_rotation,
                           cam_from_world_translation, castV(this.point3D_),
                           camera_params)

New_RigReprojErrorCostFunctor(CameraModel, point2D) ==
    [class |-> "RigReprojErrorCostFunctor", CameraModel |-> CameraModel,
     observed_x_ |-> point2D[1], observed_y_ |-> point2D[2]]

\* The two transforms composed in the opposite order.
RigReprojErrorCostFunctor_Swapped(this, cam_from_rig_rotation, cam_from_rig_translation, rig_from_world_rotation, rig_from_world_translation, point3D, camera_params) ==
    ProjectAndSubtract(this, camera_params,
        VAdd(QuatRotate(EigenQuaternionMap(rig_from_world_rotation),
                        VAdd(QuatRotate(EigenQuaternionMap(cam_from_rig_rotation),
                                        EigenVector3Map(point3D)),
                             EigenVector3Map(cam_from_rig_translation))),
             EigenVector3Map(rig_from_world_translation)))

RigReprojErrorCostFunctor(this, cam_from_rig_rotation, cam_from_rig_translation, rig_from_world_rotation, rig_from_world_translation, point3D, camera_params) ==
    ProjectAndSubtract(this, camera_params,
        VAdd(QuatRotate(EigenQuaternionMap(cam_from_rig_rotation),
                        VAdd(QuatRotate(EigenQuaternionMap(rig_from_world_rotation),
                                        EigenVector3Map(point3D)),
                             EigenVector3Map(rig_from_world_translation))),
             EigenVector3Map(cam_from_rig_translation)))

New_RigReprojErrorConstantRigCostFunctor(CameraModel, cam_from_rig, point2D) ==
    [class |-> "RigReprojErrorConstantRigCostFunctor", CameraModel |-> CameraModel,
     cam_from_rig_ |-> cam_from_rig,
     reproj_cost_ |-> New_RigReprojErrorCostFunctor(CameraModel, point2D)]

RigReprojErrorConstantRigCostFunctor(this, rig_from_world_rotation, rig_from_world_translation, point3D, camera_params) ==
    RigReprojErrorCostFunctor(this.reproj_cost_,
                              coeffs(castQ(this.cam_from_rig_.rotation)),
                              castV(this.cam_from_rig_.translation),
                              rig_from_world_rotation, rig_from_world_translation,
                              point3D, camera_params)

(***************************************************************************)
(* SampsonErrorCostFunctor                                                 *)
(***************************************************************************)
New_SampsonErrorCostFunctor(x1, x2) ==
    [class |-> "SampsonErrorCostFunctor", CameraModel |-> "none",
     x1_ |-> x1[1], y1_ |-> x1[2], x2_ |-> x2[1], y2_ |-> x2[2]]

\* Matrix representation of the cross product t x R.
CrossProductMatrix(t) ==
    << <<T(Zero), JNeg(t[3]), t[2]>>,
       <<t[3], T(Zero), JNeg(t[1])>>,
       <<JNeg(t[2]), t[1], T(Zero)>> >>

\* The product taken as R * t_x.
EssentialMatrix_Swapped(cam2_from_cam1_rotation, cam2_from_cam1_translation) ==
    MatMul(toRotationMatrix(EigenQuaternionMap(cam2_from_cam1_rotation)),
           CrossProductMatrix(cam2_from_cam1_translation))

EssentialMatrix(cam2_from_cam1_rotation, cam2_from_cam1_translation) ==
    MatMul(CrossProductMatrix(cam2_from_cam1_translation),
           toRotationMatrix(EigenQuaternionMap(cam2_from_cam1_rotation)))

SampsonDenominator(Ex1, Etx2) ==
    JAdd(JAdd(JAdd(JMul(Ex1[1], Ex1[1]), JMul(Ex1[2], Ex1[2])),
              JMul(Etx2[1], Etx2[1])),
         JMul(Etx2[2], Etx2[2]))

\* A quotient that refuses a zero denominator.
SampsonQuotient_Guarded(x2tEx1, denominator) ==
    IF denominator.a = Zero
    THEN [ok |-> FALSE, residuals |-> <<T(Zero)>>]
    ELSE [ok |-> TRUE, residuals |-> <<JDiv(JMul(x2tEx1, x2tEx1), denominator)>>]

\* residuals[0] = x2tEx1 * x2tEx1 / (...); return true
SampsonQuotient(x2tEx1, denominator) ==
    [ok |-> TRUE, residuals |-> <<JDiv(JMul(x2tEx1, x2tEx1), denominator)>>]

SampsonFromProducts(x2_h, Ex1, Etx2) ==
    SampsonQuotient(Dot(x2_h, Ex1), SampsonDenominator(Ex1, Etx2))

SampsonFromEssential(E, x1_h, x2_h) ==
    SampsonFromProducts(x2_h, MatVec(E, x1_h), MatVec(transpose(E), x2_h))

SampsonErrorCostFunctor(this, cam2_from_cam1_rotation, cam2_from_cam1_translation) ==
    SampsonFromEssential(
        EssentialMatrix(cam2_from_cam1_rotation, cam2_from_cam1_translation),
        <<T(this.x1_), T(this.y1_), T(One)>>,
        <<T(this.x2_), T(this.y2_), T(One)>>)

(***************************************************************************)
(* sqrt and atan2.  The library returns the double nearest the true value; *)
(* the model returns a rational near it: sqrt is exact on the square of a  *)
(* rational and is otherwise rounded down to a multiple of 1/(100 d), and  *)
(* atan2 is exact up to the value taken for pi on the eight principal      *)
(* directions and interpolated between them.                               *)
(***************************************************************************)
RLt(a, b) == RGt(b, a)

RAbs(a) == <<Abs(a[1]), a[2]>>

\* The largest r in lo..(hi - 1) with r * r <= n, given lo * lo <= n < hi * hi.
RECURSIVE ISqrtBetween(_, _, _)
ISqrtBetween(n, lo, hi) ==
    IF hi - lo <= 1 THEN lo
    ELSE IF ((lo + hi) \div 2) * ((lo + hi) \div 2) <= n
         THEN ISqrtBetween(n, (lo + hi) \div 2, hi)
         ELSE ISqrtBetween(n, lo, (lo + hi) \div 2)

ISqrt(n) == ISqrtBetween(n, 0, 46341)

\* Exact on a quotient of two squares; otherwise rounded down to a multiple
\* of 1 / (100 * denominator).
Sqrt(a) ==
    IF IsNaN(a) \/ a[1] < 0 THEN NaN
    ELSE IF a[2] = 0 THEN PosInf
    ELSE IF ISqrt(a[1]) * ISqrt(a[1]) = a[1] /\ ISqrt(a[2]) * ISqrt(a[2]) = a[2]
         THEN Rat(ISqrt(a[1]), ISqrt(a[2]))
    ELSE Rat(ISqrt(a[1] * a[2] * 10000), a[2] * 100)

kPi == Rat(355, 113)

\* atan(z) for 0 <= z <= 1.
AtanUnit(z) ==
    RMul(z, RAdd(RDiv(kPi, <<4, 1>>), RMul(Rat(3, 11), RSub(One, z))))

\* atan2(ay, ax) for ay > 0, ax >= 0.
AtanQuadrant(ay, ax) ==
    IF ay[2] = 0 /\ ax[2] = 0 THEN RDiv(kPi, <<4, 1>>)
    ELSE IF RGt(ay, ax) THEN RSub(RDiv(kPi, Two), AtanUnit(RDiv(ax, ay)))
    ELSE AtanUnit(RDiv(ay, ax))

\* atan2(y, x) for y > 0, given the angle phi of (|y|, |x|).
AtanUpper(x, phi) == IF x[1] < 0 THEN RSub(kPi, phi) ELSE phi

Atan2(y, x) ==
    IF IsNaN(y) \/ IsNaN(x) THEN NaN
    ELSE IF y[1] = 0 THEN (IF x[1] < 0 THEN kPi ELSE Zero)
    ELSE IF y[1] > 0 THEN AtanUpper(x, AtanQuadrant(y, RAbs(x)))
    ELSE RNeg(AtanUpper(x, AtanQuadrant(RAbs(y), RAbs(x))))

\* ceres::Jet sqrt: Jet(tmp, f.v * two_a_inverse) with tmp = sqrt(f.a).
JSqrtFrom(f, two_a_inverse, tmp) ==
    [a |-> tmp, v |-> Seq_([i \in 1..Len(f.v) |-> RMul(f.v[i], two_a_inverse)])]

JSqrtOf(f, tmp) == JSqrtFrom(f, RDiv(One, RMul(Two, tmp)), tmp)

JSqrt(f) == JSqrtOf(f, Sqrt(f.a))

\* ceres::Jet atan2(g, f): Jet(atan2(g.a, f.a), tmp * (-g.a * f.v + f.a * g.v)).
JAtan2From(g, f, tmp) ==
    [a |-> Atan2(g.a, f.a),
     v |-> Seq_([i \in 1..Max(Len(f.v), Len(g.v)) |->
                    RMul(tmp, RAdd(RMul(RNeg(g.a), Vi(f, i)), RMul(f.a, Vi(g, i))))])]

JAtan2(g, f) ==
    JAtan2From(g, f, RDiv(One, RAdd(RMul(f.a, f.a), RMul(g.a, g.a))))

(***************************************************************************)
(* ceres::QuaternionToAngleAxis on quaternion = <<w, x, y, z>>.            *)
(***************************************************************************)
AngleAxisScaled(quaternion, k) ==
    <<JMul(quaternion[2], k), JMul(quaternion[3], k), JMul(quaternion[4], k)>>

TwoTheta(sin_theta, cos_theta) ==
    JMul(T(Two), IF RLt(cos_theta.a, Zero)
                 THEN JAtan2(JNeg(sin_theta), JNeg(cos_theta))
                 ELSE JAtan2(sin_theta, cos_theta))

AngleAxisNonZero(quaternion, sin_theta) ==
    AngleAxisScaled(quaternion, JDiv(TwoTheta(sin_theta, quaternion[1]), sin_theta))

AngleAxisFrom(quaternion, sin_squared_theta) ==
    IF RGt(sin_squared_theta.a, Zero)
    THEN AngleAxisNonZero(quaternion, JSqrt(sin_squared_theta))
    ELSE AngleAxisScaled(quaternion, T(Two))

QuaternionToAngleAxis(quaternion) ==
    AngleAxisFrom(quaternion,
                  JAdd(JAdd(JMul(quaternion[2], quaternion[2]),
                            JMul(quaternion[3], quaternion[3])),
                       JMul(quaternion[4], quaternion[4])))

\* From the coefficient storage <<x, y, z, w>> of an Eigen quaternion.
EigenQuaternionToAngleAxis(eigen_quaternion) ==
    QuaternionToAngleAxis(<<eigen_quaternion[4], eigen_quaternion[1],
                            eigen_quaternion[2], eigen_quaternion[3]>>)

(***************************************************************************)
(* Eigen's Quaternion::inverse, colmap's Inverse(Rigid3d), and             *)
(* SqrtInformation.                                                        *)
(***************************************************************************)
squaredNorm(q) ==
    JAdd(JAdd(JAdd(JMul(q.x, q.x), JMul(q.y, q.y)), JMul(q.z, q.z)), JMul(q.w, q.w))

\* conjugate().coeffs() / n2 when n2 > 0, the zero quaternion otherwise.
QuatInverseFrom(q, n2) ==
    IF RGt(n2.a, Zero)
    THEN [w |-> JDiv(q.w, n2), x |-> JDiv(JNeg(q.x), n2),
          y |-> JDiv(JNeg(q.y), n2), z |-> JDiv(JNeg(q.z), n2)]
    ELSE castQ([w |-> Zero, x |-> Zero, y |-> Zero, z |-> Zero])

QuatInverse(q) == QuatInverseFrom(q, squaredNorm(q))

\* A quaternion or vector of jets back as doubles.
ValueQ(q) == [w |-> q.w.a, x |-> q.x.a, y |-> q.y.a, z |-> q.z.a]

ValueV(v) == Seq_([i \in 1..Len(v) |-> v[i].a])

\* a_from_b, given a_from_b.rotation = b_from_a.rotation.inverse():
\* a_from_b.translation = a_from_b.rotation * -b_from_a.translation.
InverseFrom(b_from_a, rotation) ==
    [rotation |-> ValueQ(rotation),
     translation |->
         ValueV(QuatRotate(rotation, <<JNeg(T(b_from_a.translation[1])),
                                       JNeg(T(b_from_a.translation[2])),
                                       JNeg(T(b_from_a.translation[3]))>>))]

Inverse(b_from_a) == InverseFrom(b_from_a, QuatInverse(castQ(b_from_a.rotation)))

\* covariance.inverse().llt().matrixL().transpose() of a diagonal covariance
\* (the covariances used are diagonal): on those, inverse() and the Cholesky
\* factor act on each diagonal entry.
SqrtInformation(covariance) ==
    Seq_([i \in 1..Len(covariance) |-> Seq_([j \in 1..Len(covariance) |->
        IF i = j THEN Sqrt(RRecip(covariance[i][i])) ELSE Zero])])

RECURSIVE RowTimes(_, _, _)
RowTimes(row, x, n) ==
    IF n = 1 THEN JMul(T(row[1]), x[1])
    ELSE JAdd(RowTimes(row, x, n - 1), JMul(T(row[n]), x[n]))

\* residuals.applyOnTheLeft(M.cast<T>()): residuals = M * residuals.
applyOnTheLeft(residuals, M) ==
    Seq_([i \in 1..Len(residuals) |-> RowTimes(M[i], residuals, Len(residuals))])

\* The buffer with the three entries after offset overwritten by v.
WriteVector3(residuals_ptr, offset, v) ==
    Seq_([i \in 1..Len(residuals_ptr) |->
             IF i > offset /\ i <= offset + 3 THEN v[i - offset] ELSE residuals_ptr[i]])

\* The residual buffer as a call receives it: nothing has been written to it,
\* and whatever would be read from it poisons the result.
UnwrittenResiduals(n) == Seq_([i \in 1..n |-> T(NaN)])

(***************************************************************************)
(* AbsolutePosePriorCostFunctor.  operator() uses the residual buffer in   *)
(* place: it writes the angle-axis into residuals_ptr[0..2], the           *)
(* translation into residuals_ptr[3..5], and then multiplies the buffer by *)
(* the square-root information.                                            *)
(***************************************************************************)
New_AbsolutePosePriorCostFunctor(cam_from_world_prior, cam_cov_from_world_prior) ==
    [class |-> "AbsolutePosePriorCostFunctor", CameraModel |-> "none",
     world_from_cam_prior_ |-> Inverse(cam_from_world_prior),
     cam_sqrt_info_from_world_prior_ |-> SqrtInformation(cam_cov_from_world_prior)]

AbsolutePosePrior_WriteRotation(this, cam_from_world_rotation, residuals_ptr) ==
    WriteVector3(residuals_ptr, 0,
        EigenQuaternionToAngleAxis(coeffs(
            QuatMul(EigenQuaternionMap(cam_from_world_rotation),
                    castQ(this.world_from_cam_prior_.rotation)))))

\* The translation error with the prior's translation left unrotated.
AbsolutePosePrior_WriteTranslation_Unrotated(this, cam_from_world_rotation, cam_from_world_translation, residuals_ptr) ==
    WriteVector3(residuals_ptr, 3,
        VAdd(EigenVector3Map(cam_from_world_translation),
             castV(this.world_from_cam_prior_.translation)))

AbsolutePosePrior_WriteTranslation(this, cam_from_world_rotation, cam_from_world_translation, residuals_ptr) ==
    WriteVector3(residuals_ptr, 3,
        VAdd(EigenVector3Map(cam_from_world_translation),
             QuatRotate(EigenQuaternionMap(cam_from_world_rotation),
                        castV(this.world_from_cam_prior_.translation))))

AbsolutePosePrior_Apply(this, residuals_ptr) ==
    applyOnTheLeft(residuals_ptr, this.cam_sqrt_info_from_world_prior_)

AbsolutePosePriorCostFunctor(this, cam_from_world_rotation, cam_from_world_translation, residuals_ptr) ==
    [ok |-> TRUE,
     residuals |->
         AbsolutePosePrior_Apply(this,
             AbsolutePosePrior_WriteTranslation(this, cam_from_world_rotation,
                 cam_from_world_translation,
                 AbsolutePosePrior_WriteRotation(this, cam_from_world_rotation,
                                                 residuals_ptr)))]

(***************************************************************************)
(* AbsolutePosePositionPriorCostFunctor                                    *)
(***************************************************************************)
New_AbsolutePosePositionPriorCostFunctor(position_in_world_prior, position_cov_in_world_prior) ==
    [class |-> "AbsolutePosePositionPriorCostFunctor", CameraModel |-> "none",
     position_in_world_prior_ |-> position_in_world_prior,
     position_sqrt_info_in_world_prior_ |->
         SqrtInformation(position_cov_in_world_prior)]

AbsolutePosePositionPriorCostFunctor(this, cam_from_world_rotation, cam_from_world_translation) ==
    [ok |-> TRUE,
     residuals |->
         applyOnTheLeft(
             VAdd(castV(this.position_in_world_prior_),
                  QuatRotate(QuatInverse(EigenQuaternionMap(cam_from_world_rotation)),
                             EigenVector3Map(cam_from_world_translation))),
             this.position_sqrt_info_in_world_prior_)]

(***************************************************************************)
(* RelativePosePriorCostFunctor                                            *)
(***************************************************************************)
New_RelativePosePriorCostFunctor(i_from_j_prior, i_cov_from_j_prior) ==
    [class |-> "RelativePosePriorCostFunctor", CameraModel |-> "none",
     j_from_i_prior_ |-> Inverse(i_from_j_prior),
     i_sqrt_info_from_j_prior_ |-> SqrtInformation(i_cov_from_j_prior)]

\* operator() from i_from_j_rotation on, with j's translation added to the
\* prior's instead of subtracted from it.
RelativePosePrior_From_Added(this, i_from_j_rotation, i_from_world_translation, j_from_world_translation) ==
    [ok |-> TRUE,
     residuals |->
         applyOnTheLeft(
             EigenQuaternionToAngleAxis(coeffs(
                 QuatMul(i_from_j_rotation, castQ(this.j_from_i_prior_.rotation))))
             \o VAdd(EigenVector3Map(i_from_world_translation),
                     QuatRotate(i_from_j_rotation,
                                VAdd(castV(this.j_from_i_prior_.translation),
                                     EigenVector3Map(j_from_world_translation)))),
             this.i_sqrt_info_from_j_prior_)]

\* operator() from i_from_j_rotation on.
RelativePosePrior_From(this, i_from_j_rotation, i_from_world_translation, j_from_world_translation) ==
    [ok |-> TRUE,
     residuals |->
         applyOnTheLeft(
             EigenQuaternionToAngleAxis(coeffs(
                 QuatMul(i_from_j_rotation, castQ(this.j_from_i_prior_.rotation))))
             \o VAdd(EigenVector3Map(i_from_world_translation),
                     QuatRotate(i_from_j_rotation,
                                VSub(castV(this.j_from_i_prior_.translation),
                                     EigenVector3Map(j_from_world_translation)))),
             this.i_sqrt_info_from_j_prior_)]

RelativePosePriorCostFunctor(this, i_from_world_rotation, i_from_world_translation, j_from_world_rotation, j_from_world_translation) ==
    RelativePosePrior_From(this,
        QuatMul(EigenQuaternionMap(i_from_world_rotation),
                QuatInverse(EigenQuaternionMap(j_from_world_rotation))),
        i_from_world_translation, j_from_world_translation)

(***************************************************************************)
(* Point3DAlignmentCostFunctor                                             *)
(***************************************************************************)
New_Point3DAlignmentCostFunctor(point_in_b_prior, point_cov_in_b_prior) ==
    [class |-> "Point3DAlignmentCostFunctor", CameraModel |-> "none",
     point_in_b_prior_ |-> point_in_b_prior,
     point_sqrt_info_in_b_prior_ |-> SqrtInformation(point_cov_in_b_prior)]

Point3DAlignmentCostFunctor(this, point_in_a, b_from_a_rotation, b_from_a_translation, b_from_a_scale) ==
    [ok |-> TRUE,
     residuals |->
         applyOnTheLeft(
             VSub(VAdd(VScale(b_from_a_scale[1],
                              QuatRotate(EigenQuaternionMap(b_from_a_rotation),
                                         EigenVector3Map(point_in_a))),
                       EigenVector3Map(b_from_a_translation)),
                  castV(this.point_in_b_prior_)),
             this.point_sqrt_info_in_b_prior_)]

(***************************************************************************)
(* AutoDiffCostFunctor<DerivedCostFunctor, kNumResiduals, kParameterDims...>*)
(* A functor type is a record [template, CameraModel]; the isotropic       *)
(* wrapper's type is [template, CostFunctor] with CostFunctor the wrapped  *)
(* type.                                                                   *)
(***************************************************************************)
CameraFunctorTemplates ==
    {"ReprojErrorCostFunctor", "ReprojErrorConstantPoseCostFunctor",
     "ReprojErrorConstantPoint3DCostFunctor", "RigReprojErrorCostFunctor",
     "RigReprojErrorConstantRigCostFunctor"}

kNumResiduals(ty) ==
    CASE ty.template \in CameraFunctorTemplates -> 2
      [] ty.template = "SampsonErrorCostFunctor" -> 1
      [] ty.template = "AbsolutePosePriorCostFunctor" -> 6
      [] ty.template = "AbsolutePosePositionPriorCostFunctor" -> 3
      [] ty.template = "RelativePosePriorCostFunctor" -> 6
      [] ty.template = "Point3DAlignmentCostFunctor" -> 3

kParameterDims(ty) ==
    CASE ty.template = "ReprojErrorCostFunctor" ->
           <<4, 3, 3, num_params(ty.CameraModel)>>
      [] ty.template = "ReprojErrorConstantPoseCostFunctor" ->
           <<3, num_params(ty.CameraModel)>>
      [] ty.template = "ReprojErrorConstantPoint3DCostFunctor" ->
           <<4, 3, num_params(ty.CameraModel)>>
      [] ty.template = "RigReprojErrorCostFunctor" ->
           <<4, 3, 4, 3, 3, num_params(ty.CameraModel)>>
      [] ty.template = "RigReprojErrorConstantRigCostFunctor" ->
           <<4, 3, 3, num_params(ty.CameraModel)>>
      [] ty.template = "SampsonErrorCostFunctor" -> <<4, 3>>
      [] ty.template = "AbsolutePosePriorCostFunctor" -> <<4, 3>>
      [] ty.template = "AbsolutePosePositionPriorCostFunctor" -> <<4, 3>>
      [] ty.template = "RelativePosePriorCostFunctor" -> <<4, 3, 4, 3>>
      [] ty.template = "Point3DAlignmentCostFunctor" -> <<3, 4, 3, 1>>

\* new DerivedCostFunctor(std::forward<Args>(args)...)
New_DerivedCostFunctor(ty, args) ==
    CASE ty.template = "ReprojErrorCostFunctor" ->
           New_ReprojErrorCostFunctor(ty.CameraModel, args[1])
      [] ty.template = "ReprojErrorConstantPoseCostFunctor" ->
           New_ReprojErrorConstantPoseCostFunctor(ty.CameraModel, args[1], args[2])
      [] ty.template = "ReprojErrorConstantPoint3DCostFunctor" ->
           New_ReprojErrorConstantPoint3DCostFunctor(ty.CameraModel, args[1], args[2])
      [] ty.template = "RigReprojErrorCostFunctor" ->
           New_RigReprojErrorCostFunctor(ty.CameraModel, args[1])
      [] ty.template = "RigReprojErrorConstantRigCostFunctor" ->
           New_RigReprojErrorConstantRigCostFunctor(ty.CameraModel, args[1], args[2])
      [] ty.template = "SampsonErrorCostFunctor" ->
           New_SampsonErrorCostFunctor(args[1], args[2])
      [] ty.template = "AbsolutePosePriorCostFunctor" ->
           New_AbsolutePosePriorCostFunctor(args[1], args[2])
      [] ty.template = "AbsolutePosePositionPriorCostFunctor" ->
           New_AbsolutePosePositionPriorCostFunctor(args[1], args[2])
      [] ty.template = "RelativePosePriorCostFunctor" ->
           New_RelativePosePriorCostFunctor(args[1], args[2])
      [] ty.template = "Point3DAlignmentCostFunctor" ->
           New_Point3DAlignmentCostFunctor(args[1], args[2])

\* (*functor_)(parameters[0], parameters[1], ..., residuals)
CallFunctor(this, p) ==
    CASE this.class = "ReprojErrorCostFunctor" ->
           ReprojErrorCostFunctor(this, p[1], p[2], p[3], p[4])
      [] this.class = "ReprojErrorConstantPoseCostFunctor" ->
           ReprojErrorConstantPoseCostFunctor(this, p[1], p[2])
      [] this.class = "ReprojErrorConstantPoint3DCostFunctor" ->
           ReprojErrorConstantPoint3DCostFunctor(this, p[1], p[2], p[3])
      [] this.class = "RigReprojErrorCostFunctor" ->
           RigReprojErrorCostFunctor(this, p[1], p[2], p[3], p[4], p[5], p[6])
      [] this.class = "RigReprojErrorConstantRigCostFunctor" ->
           RigReprojErrorConstantRigCostFunctor(this, p[1], p[2], p[3], p[4])
      [] this.class = "SampsonErrorCostFunctor" ->
           SampsonErrorCostFunctor(this, p[1], p[2])
      [] this.class = "AbsolutePosePriorCostFunctor" ->
           AbsolutePosePriorCostFunctor(this, p[1], p[2], UnwrittenResiduals(6))
      [] this.class = "AbsolutePosePositionPriorCostFunctor" ->
           AbsolutePosePositionPriorCostFunctor(this, p[1], p[2])
      [] this.class = "RelativePosePriorCostFunctor" ->
           RelativePosePriorCostFunctor(this, p[1], p[2], p[3], p[4])
      [] this.class = "Point3DAlignmentCostFunctor" ->
           Point3DAlignmentCostFunctor(this, p[1], p[2], p[3], p[4])

\* A Create call yields the heap after it, the pointer it returned (0 when it
\* did not return) and how it ended.
AutoDiffCostFunctor_Create(h, ty, args) ==
    [heap |-> Append(h, [type |-> "AutoDiffCostFunction",
                         functor_ |-> New_DerivedCostFunctor(ty, args),
                         num_residuals |-> kNumResiduals(ty),
                         parameter_block_sizes |-> kParameterDims(ty)]),
     ret |-> Len(h) + 1,
     outcome |-> "returned"]

(***************************************************************************)
(* ceres::CostFunction::Evaluate of the cost functions on the heap.        *)
(* parameters is the sequence of parameter blocks; jacobians, when asked   *)
(* for, is indexed [block][residual][parameter].                           *)
(***************************************************************************)
RECURSIVE SumTo(_, _)
SumTo(sizes, b) == IF b = 0 THEN 0 ELSE sizes[b] + SumTo(sizes, b - 1)

\* The parameter blocks as the functor receives them: doubles, or jets each
\* carrying the unit derivative of its own position among all K parameters.
FunctorInputs(sizes, K, parameters, want_jacobians) ==
    Seq_([b \in 1..Len(sizes) |-> Seq_([c \in 1..sizes[b] |->
        IF want_jacobians
        THEN [a |-> parameters[b][c],
              v |-> Seq_([k \in 1..K |->
                             IF k = SumTo(sizes, b - 1) + c THEN One ELSE Zero])]
        ELSE T(parameters[b][c])])])

FunctorOutputs(cf, sizes, want_jacobians, out) ==
    [ok |-> out.ok,
     residuals |-> Seq_([r \in 1..cf.num_residuals |-> out.residuals[r].a]),
     jacobians |->
         IF want_jacobians
         THEN Seq_([b \in 1..Len(sizes) |-> Seq_([r \in 1..cf.num_residuals |->
                  Seq_([c \in 1..sizes[b] |->
                      Vi(out.residuals[r], SumTo(sizes, b - 1) + c)])])])
         ELSE <<>>]

AutoDiffCostFunction_Evaluate(cf, parameters, want_jacobians) ==
    FunctorOutputs(cf, cf.parameter_block_sizes, want_jacobians,
        CallFunctor(cf.functor_,
            FunctorInputs(cf.parameter_block_sizes,
                          SumTo(cf.parameter_block_sizes, Len(cf.parameter_block_sizes)),
                          parameters, want_jacobians)))

\* A LinearCostFunction that scales the residual and reports a unit derivative.
LinearCostFunction_UnitJacobian(cf, parameters, want_jacobians) ==
    [ok |-> TRUE,
     residuals |-> <<RMul(parameters[1][1], cf.s_)>>,
     jacobians |-> IF want_jacobians THEN << << <<One>> >> >> ELSE <<>>]

LinearCostFunction_Evaluate(cf, parameters, want_jacobians) ==
    [ok |-> TRUE,
     residuals |-> <<RMul(parameters[1][1], cf.s_)>>,
     jacobians |-> IF want_jacobians THEN << << <<cf.s_>> >> >> ELSE <<>>]

\* The conditioned output, from the wrapped function's output w and the
\* conditioners' outputs cond.
Conditioned(cf, want_jacobians, w, cond) ==
    [ok |-> \A r \in 1..cf.num_residuals : cond[r].ok,
     residuals |-> Seq_([r \in 1..cf.num_residuals |-> cond[r].residuals[1]]),
     jacobians |->
         IF want_jacobians
         THEN Seq_([b \in 1..Len(cf.parameter_block_sizes) |->
                 Seq_([r \in 1..cf.num_residuals |->
                     Seq_([c \in 1..cf.parameter_block_sizes[b] |->
                         RMul(w.jacobians[b][r][c], cond[r].jacobians[1][1][1])])])])
         ELSE <<>>]

RECURSIVE Evaluate(_, _, _, _)
ApplyConditioners(h, cf, want_jacobians, w) ==
    IF ~w.ok THEN w
    ELSE Conditioned(cf, want_jacobians, w,
             Seq_([r \in 1..cf.num_residuals |->
                      Evaluate(h, cf.conditioners_[r], << <<w.residuals[r]>> >>,
                               want_jacobians)]))

ConditionedCostFunction_Evaluate(h, cf, parameters, want_jacobians) ==
    ApplyConditioners(h, cf, want_jacobians,
        Evaluate(h, cf.wrapped_cost_function_, parameters, want_jacobians))

Evaluate(h, p, parameters, want_jacobians) ==
    CASE h[p].type = "AutoDiffCostFunction" ->
           AutoDiffCostFunction_Evaluate(h[p], parameters, want_jacobians)
      [] h[p].type = "LinearCostFunction" ->
           LinearCostFunction_Evaluate(h[p], parameters, want_jacobians)
      [] h[p].type = "ConditionedCostFunction" ->
           ConditionedCostFunction_Evaluate(h, h[p], parameters, want_jacobians)

(***************************************************************************)
(* IsotropicNoiseCostFunctorWrapper<CostFunctor>::Create(stddev, args...)  *)
(***************************************************************************)
New_LinearCostFunction(s) ==
    [type |-> "LinearCostFunction", s_ |-> s, num_residuals |-> 1,
     parameter_block_sizes |-> <<1>>]

New_ConditionedCostFunction(h, wrapped_cost_function, conditioners) ==
    [type |-> "ConditionedCostFunction",
     wrapped_cost_function_ |-> wrapped_cost_function,
     conditioners_ |-> conditioners,
     num_residuals |-> h[wrapped_cost_function].num_residuals,
     parameter_block_sizes |-> h[wrapped_cost_function].parameter_block_sizes]

\* A check that lets a zero stddev through (GE in place of GT).
StddevCheck_GE(stddev) == ~RGt(Zero, stddev)

\* THROW_CHECK_GT(stddev, 0.0) passes.
StddevCheck(stddev) == RGt(stddev, Zero)

\* A scale that multiplies by stddev instead of dividing by it.
IsotropicScale_Stddev(stddev) == stddev

IsotropicScale(stddev) == RDiv(One, stddev)

\* The conditioner objects allocated for num_residuals residuals, and the
\* vector of pointers to them, the first new object being at address base.
NewConditioners(version_major, base, num_residuals, scale) ==
    IF version_major < 2
    THEN [objects |-> Seq_([i \in 1..num_residuals |-> New_LinearCostFunction(scale)]),
          conditioners |-> Seq_([i \in 1..num_residuals |-> base + i - 1])]
    ELSE [objects |-> <<New_LinearCostFunction(scale)>>,
          conditioners |-> Seq_([i \in 1..num_residuals |-> base])]

\* return new ceres::ConditionedCostFunction(cost_function, conditioners, ...)
ReturnConditioned(h2, cost_function, conditioners) ==
    [heap |-> Append(h2, New_ConditionedCostFunction(h2, cost_function, conditioners)),
     ret |-> Len(h2) + 1,
     outcome |-> "returned"]

\* Create from the wrapped CostFunctor::Create's result on.
WrapCreated(version_major, made, cs) ==
    ReturnConditioned(made.heap \o cs.objects, made.ret, cs.conditioners)

ConditionCreated(version_major, stddev, made) ==
    IF made.outcome # "returned" THEN made
    ELSE WrapCreated(version_major, made,
             NewConditioners(version_major, Len(made.heap) + 1,
                             made.heap[made.ret].num_residuals,
                             IsotropicScale(stddev)))

RECURSIVE CostFunctor_Create(_, _, _, _)
IsotropicNoiseCostFunctorWrapper_Create(version_major, h, CostFunctor, stddev, args) ==
    IF ~StddevCheck(stddev)
    THEN [heap |-> h, ret |-> 0, outcome |-> "check_failed"]
    ELSE ConditionCreated(version_major, stddev,
                          CostFunctor_Create(version_major, h, CostFunctor, args))

\* CostFunctor::Create(args...) for a functor type or a wrapper type.
CostFunctor_Create(version_major, h, ty, args) ==
    IF ty.template = "IsotropicNoiseCostFunctorWrapper"
    THEN IsotropicNoiseCostFunctorWrapper_Create(version_major, h, ty.CostFunctor,
                                                 Head(args), Tail(args))
    ELSE AutoDiffCostFunctor_Create(h, ty, args)

(***************************************************************************)
(* CreateCameraCostFunction<CostFunctor>(camera_model_id, args...)         *)
(***************************************************************************)
\* A default label that hands a null handle back to the caller.
CameraModelDoesNotExist_ReturnsNull(h) ==
    [heap |-> h, ret |-> 0, outcome |-> "returned"]

\* The default label of CAMERA_MODEL_SWITCH_CASES.
CameraModelDoesNotExist(h) == [heap |-> h, ret |-> 0, outcome |-> "fatal"]

\* A switch whose every known identifier lands on the first case.
CameraModelCase_First(camera_model_id) ==
    IF \E CameraModel \in CameraModels : model_id(CameraModel) = camera_model_id
    THEN "SimplePinholeCameraModel"
    ELSE "default"

\* The case label the switch jumps to.
CameraModelCase(camera_model_id) ==
    IF \E CameraModel \in CameraModels : model_id(CameraModel) = camera_model_id
    THEN CHOOSE CameraModel \in CameraModels : model_id(CameraModel) = camera_model_id
    ELSE "default"

CreateCameraCostFunction(version_major, h, CostFunctor, camera_model_id, args) ==
    IF CameraModelCase(camera_model_id) = "default"
    THEN CameraModelDoesNotExist(h)
    ELSE CostFunctor_Create(version_major, h,
                            [template |-> CostFunctor,
                             CameraModel |-> CameraModelCase(camera_model_id)],
                            args)

(***************************************************************************)
(* The state: the build's ceres major version, the cost-function objects   *)
(* the Create call allocated (heap, addressed from 1), the pointer it      *)
(* returned (0: none), the record of that call and of the last Evaluate,   *)
(* and the solver threads that are inside the functor's operator().        *)
(* A behaviour is the life of one cost function: a caller creates it once, *)
(* and the solver then evaluates it any number of times.                   *)
(***************************************************************************)
VARIABLES ceres_version_major, heap, handle, created, evaluated, threads

vars == <<ceres_version_major, heap, handle, created, evaluated, threads>>

None == [op |-> "none"]

Init ==
    /\ ceres_version_major \in {1, 2}
    /\ heap = <<>>
    /\ handle = 0
    /\ created = None
    /\ evaluated = None
    /\ threads = <<>>

Returned(call, made) ==
    /\ heap' = made.heap
    /\ handle' = made.ret
    /\ created' = [call EXCEPT !.outcome = made.outcome]
    /\ UNCHANGED <<ceres_version_major, evaluated, threads>>

\* A caller's CostFunctor::Create(args...).
CallCreate(ty, args) ==
    /\ created = None
    /\ Returned([op |-> "Create", type |-> ty, args |-> args, outcome |-> ""],
                CostFunctor_Create(ceres_version_major, <<>>, ty, args))

\* A caller's CreateCameraCostFunction<CostFunctor>(camera_model_id, args...).
CallCreateCameraCostFunction(CostFunctor, camera_model_id, args) ==
    /\ created = None
    /\ Returned([op |-> "CreateCameraCostFunction", CostFunctor |-> CostFunctor,
                 camera_model_id |-> camera_model_id, args |-> args, outcome |-> ""],
                CreateCameraCostFunction(ceres_version_major, <<>>, CostFunctor,
                                         camera_model_id, args))

Evaluated(parameters, want_jacobians, out) ==
    [op |-> "Evaluate", parameters |-> parameters,
     want_jacobians |-> want_jacobians, ok |-> out.ok,
     residuals |-> out.residuals, jacobians |-> out.jacobians]

\* The solver's handle->Evaluate(parameters, residuals, jacobians).
CallEvaluate(parameters, want_jacobians) ==
    /\ handle # 0
    /\ evaluated' = Evaluated(parameters, want_jacobians,
                              Evaluate(heap, handle, parameters, want_jacobians))
    /\ UNCHANGED <<ceres_version_major, heap, handle, created, threads>>

(***************************************************************************)
(* Inputs.                                                                 *)
(***************************************************************************)
R(n) == <<n, 1>>

V2(a, b) == <<R(a), R(b)>>

V3(a, b, c) == <<R(a), R(b), R(c)>>

\* Quaternion coefficient blocks in storage order <<x, y, z, w>>.
QIdentity == <<Zero, Zero, Zero, One>>
QHalfTurnX == <<One, Zero, Zero, Zero>>
QUnit345 == <<Rat(3, 5), Zero, Zero, Rat(4, 5)>>
QNotUnit == <<Zero, One, Zero, One>>

\* The Rigid3d with the rotation stored as q and the translation t.
Rigid3d(q, t) ==
    [rotation |-> [w |-> q[4], x |-> q[1], y |-> q[2], z |-> q[3]], translation |-> t]

\* The poses the specifications create functors from.
PoseIdentity == Rigid3d(QIdentity, V3(0, 0, 0))

PoseHalfTurnX == Rigid3d(QHalfTurnX, V3(1, 0, 2))

PoseUnit345 == Rigid3d(QUnit345, V3(1, 0, 2))

PoseNotUnit == Rigid3d(QNotUnit, V3(0, 1, 1))

SampsonType == [template |-> "SampsonErrorCostFunctor", CameraModel |-> "none"]

CameraType(template, CameraModel) ==
    [template |-> template, CameraModel |-> CameraModel]

IsotropicType(CostFunctor) ==
    [template |-> "IsotropicNoiseCostFunctorWrapper", CostFunctor |-> CostFunctor]

RECURSIVE Nested(_, _)
Nested(k, base) == IF k = 0 THEN base ELSE IsotropicType(Nested(k - 1, base))

RECURSIVE Depth(_)
Depth(ty) ==
    IF ty.template = "IsotropicNoiseCostFunctorWrapper"
    THEN 1 + Depth(ty.CostFunctor) ELSE 0

RECURSIVE Leaf(_)
Leaf(ty) ==
    IF ty.template = "IsotropicNoiseCostFunctorWrapper" THEN Leaf(ty.CostFunctor) ELSE ty

RECURSIVE Tuples(_, _)
Tuples(S, k) ==
    IF k = 0 THEN {<<>>} ELSE {<<x>> \o t : x \in S, t \in Tuples(S, k - 1)}

(***************************************************************************)
(* SpecIso: the isotropic-noise wrapper, nested up to MaxNesting deep over *)
(* a one-residual and a two-residual functor.                              *)
(***************************************************************************)
MaxNesting == 2

Stddevs == {R(-1), Zero, One, Two, R(3)}

IsoBases ==
    {SampsonType,
     CameraType("ReprojErrorConstantPoseCostFunctor", "SimplePinholeCameraModel")}

IsoBaseArgs(base) ==
    IF base = SampsonType
    THEN {<<V2(1, 2), V2(-1, 1)>>}
    ELSE {<<PoseUnit345, V2(1, -2)>>}

IsoParameters(base) ==
    IF base = SampsonType
    THEN {<<QIdentity, V3(0, 0, 1)>>, <<QUnit345, V3(1, 0, 2)>>}
    ELSE {<<V3(0, 0, 5), V3(1, 0, 0)>>, <<V3(1, 2, 4), V3(2, 1, -1)>>}

IsoCreate ==
    \E k \in 0..MaxNesting, base \in IsoBases :
        \E stddevs \in Tuples(Stddevs, k), args \in IsoBaseArgs(base) :
            CallCreate(Nested(k, base), stddevs \o args)

IsoEvaluate ==
    /\ created.op = "Create"
    /\ \E parameters \in IsoParameters(Leaf(created.type)),
          want_jacobians \in BOOLEAN :
           CallEvaluate(parameters, want_jacobians)

NextIso == IsoCreate \/ IsoEvaluate

SpecIso == Init /\ [][NextIso]_vars

(***************************************************************************)
(* Properties of the isotropic-noise wrapper (SpecIso).                    *)
(***************************************************************************)
\* The stddev arguments of the Create call, outermost wrapper first.
CreatedStddevs == SubSeq(created.args, 1, Depth(created.type))

IsPositive(x) == x[2] > 0 /\ x[1] > 0

RECURSIVE Product(_)
Product(s) == IF s = <<>> THEN One ELSE RMul(Head(s), Product(Tail(s)))

RECURSIVE Reverse(_)
Reverse(s) == IF s = <<>> THEN <<>> ELSE Append(Reverse(Tail(s)), Head(s))

\* The pointer k wrapping levels below p.
RECURSIVE Unwrap(_, _, _)
Unwrap(h, p, k) ==
    IF k = 0 THEN p ELSE Unwrap(h, h[p].wrapped_cost_function_, k - 1)

\* out is what base yields on the same input, every residual and every
\* Jacobian entry multiplied by factor.
IsScaled(out, base, factor) ==
    /\ out.ok = base.ok
    /\ Len(out.residuals) = Len(base.residuals)
    /\ \A r \in 1..Len(base.residuals) :
           out.residuals[r] = RMul(base.residuals[r], factor)
    /\ Len(out.jacobians) = Len(base.jacobians)
    /\ \A b \in 1..Len(base.jacobians) :
           /\ Len(out.jacobians[b]) = Len(base.jacobians[b])
           /\ \A r \in 1..Len(base.jacobians[b]) :
                  /\ Len(out.jacobians[b][r]) = Len(base.jacobians[b][r])
                  /\ \A c \in 1..Len(base.jacobians[b][r]) :
                         out.jacobians[b][r][c] =
                             RMul(base.jacobians[b][r][c], factor)

\* What evaluating p on the heap h yields on the input of the last Evaluate.
Reevaluated(h, p) ==
    Evaluate(h, p, evaluated.parameters, evaluated.want_jacobians)

\* C1: IsotropicNoiseCostFunctorWrapper::Create with stddev <= 0 (zero or
\* negative) fails its check before anything is constructed: no object has
\* been allocated and no handle is returned.  With stddev > 0 it returns a
\* handle to a ConditionedCostFunction whenever the wrapped
\* CostFunctor::Create returns (which, for a wrapped wrapper, needs that
\* wrapper's own stddev to be > 0).
C1_StddevPrecondition ==
    (created.op = "Create" /\ Depth(created.type) >= 1) =>
        IF ~IsPositive(created.args[1])
        THEN /\ created.outcome = "check_failed"
             /\ handle = 0
             /\ heap = <<>>
        ELSE (\A i \in 2..Depth(created.type) : IsPositive(created.args[i])) =>
                 /\ created.outcome = "returned"
                 /\ handle \in 1..Len(heap)
                 /\ heap[handle].type = "ConditionedCostFunction"

\* A wrapper Create with stddev = 0 has failed, and one with stddev < 0 is
\* reachable as well (C1_NegativeRejected).
C1_ZeroRejected ==
    /\ created.op = "Create"
    /\ Depth(created.type) = 1
    /\ created.args[1] = Zero
    /\ created.outcome = "check_failed"

\* C2: the handle an isotropic Create returned has the wrapped function's
\* number of residuals and parameter block sizes, holds one conditioner per
\* residual, each a LinearCostFunction of scale 1/stddev, and on every
\* input yields the wrapped function's residuals and Jacobian entries
\* multiplied by 1/stddev.
C2_Shape ==
    /\ heap[handle].type = "ConditionedCostFunction"
    /\ heap[handle].num_residuals =
           heap[heap[handle].wrapped_cost_function_].num_residuals
    /\ heap[handle].num_residuals = kNumResiduals(Leaf(created.type))
    /\ heap[handle].parameter_block_sizes =
           heap[heap[handle].wrapped_cost_function_].parameter_block_sizes
    /\ heap[handle].parameter_block_sizes = kParameterDims(Leaf(created.type))
    /\ Len(heap[handle].conditioners_) = heap[handle].num_residuals
    /\ \A r \in 1..heap[handle].num_residuals :
           /\ heap[heap[handle].conditioners_[r]].type = "LinearCostFunction"
           /\ heap[heap[handle].conditioners_[r]].s_ = RDiv(One, created.args[1])

C2_ScalesByInverseStddev ==
    (created.op = "Create" /\ Depth(created.type) >= 1 /\ handle # 0) =>
        /\ C2_Shape
        /\ evaluated.op = "Evaluate" =>
               /\ IsScaled(evaluated,
                           Reevaluated(heap, heap[handle].wrapped_cost_function_),
                           RDiv(One, created.args[1]))
               /\ created.args[1] = One =>
                      evaluated.residuals =
                          Reevaluated(heap, heap[handle].wrapped_cost_function_).residuals

\* A two-residual function wrapped with stddev = 2 was evaluated with
\* Jacobians and gave a finite non-zero residual.
C2_HalvedWitness ==
    /\ created.op = "Create"
    /\ Depth(created.type) = 1
    /\ created.args[1] = Two
    /\ evaluated.op = "Evaluate"
    /\ evaluated.want_jacobians
    /\ Len(evaluated.residuals) = 2
    /\ IsFinite(evaluated.residuals[1])
    /\ evaluated.residuals[1] # Zero

\* The same Create call with the stddevs given in the opposite order.
CreateReversed ==
    CostFunctor_Create(ceres_version_major, <<>>, created.type,
                       Reverse(CreatedStddevs)
                           \o SubSeq(created.args, Depth(created.type) + 1,
                                     Len(created.args)))

SameAsReversed(made) ==
    /\ made.outcome = "returned"
    /\ Reevaluated(made.heap, made.ret).ok = evaluated.ok
    /\ Reevaluated(made.heap, made.ret).residuals = evaluated.residuals
    /\ Reevaluated(made.heap, made.ret).jacobians = evaluated.jacobians

\* C3: a wrapper may wrap a wrapper.  Every level checks its own stddev, so
\* the nested Create returns a handle exactly when all of them are > 0; the
\* handle keeps the undecorated function's number of residuals, and its
\* residuals and Jacobian entries are the undecorated function's multiplied
\* by 1 / (product of the stddevs), the same whichever order the stddevs
\* are applied in.
C3_NestedScaling ==
    (created.op = "Create" /\ Depth(created.type) >= 2) =>
        /\ (handle # 0) <=>
               \A i \in 1..Depth(created.type) : IsPositive(created.args[i])
        /\ handle = 0 => created.outcome = "check_failed"
        /\ handle # 0 =>
               heap[handle].num_residuals = kNumResiduals(Leaf(created.type))
        /\ (handle # 0 /\ evaluated.op = "Evaluate") =>
               /\ IsScaled(evaluated,
                           Reevaluated(heap, Unwrap(heap, handle, Depth(created.type))),
                           RDiv(One, Product(CreatedStddevs)))
               /\ SameAsReversed(CreateReversed)

\* A function wrapped with stddev 3 inside and 2 outside was evaluated with
\* Jacobians and gave a finite non-zero residual.
C3_NestedWitness ==
    /\ created.op = "Create"
    /\ Depth(created.type) = 2
    /\ created.args[1] = Two
    /\ created.args[2] = R(3)
    /\ evaluated.op = "Evaluate"
    /\ evaluated.want_jacobians
    /\ IsFinite(evaluated.residuals[1])
    /\ evaluated.residuals[1] # Zero

(***************************************************************************)
(* Concurrent evaluation.  The solver evaluates one cost function from     *)
(* NumThreads threads; each call has its own parameter blocks and its own  *)
(* residual buffer, and all calls share the functor instance on the heap.  *)
(* A thread is a record of where its call stands in operator() (pc), the   *)
(* parameter blocks it passed (parameters, with given the values they had  *)
(* at the call), its residual buffer (residuals) and the flag returned.    *)
(* The statements of operator() are the steps; steps of different threads  *)
(* interleave freely.                                                      *)
(***************************************************************************)
NumThreads == 2

Idle == [pc |-> "idle"]

\* A variant of the functor that keeps the angle-axis in a member of the
\* instance between the statements that write and read it.
AbsolutePosePriorStep_Member(this, th) ==
    CASE th.pc = "angle_axis" ->
           [this |-> [f \in {"scratch_"} |->
                         AbsolutePosePrior_WriteRotation(this, th.parameters[1],
                                                         th.residuals)] @@ this,
            th |-> [th EXCEPT !.pc = "translation"]]
      [] th.pc = "translation" ->
           [this |-> this,
            th |-> [th EXCEPT !.pc = "apply",
                              !.residuals =
                                  AbsolutePosePrior_WriteTranslation(
                                      this, th.parameters[1], th.parameters[2],
                                      this.scratch_)]]
      [] th.pc = "apply" ->
           [this |-> this,
            th |-> [th EXCEPT !.pc = "done", !.ok = TRUE,
                              !.residuals = AbsolutePosePrior_Apply(this, th.residuals)]]

\* One statement of AbsolutePosePriorCostFunctor::operator(): the functor
\* instance and the thread after it.
AbsolutePosePriorStep(this, th) ==
    CASE th.pc = "angle_axis" ->
           [this |-> this,
            th |-> [th EXCEPT !.pc = "translation",
                              !.residuals =
                                  AbsolutePosePrior_WriteRotation(
                                      this, th.parameters[1], th.residuals)]]
      [] th.pc = "translation" ->
           [this |-> this,
            th |-> [th EXCEPT !.pc = "apply",
                              !.residuals =
                                  AbsolutePosePrior_WriteTranslation(
                                      this, th.parameters[1], th.parameters[2],
                                      th.residuals)]]
      [] th.pc = "apply" ->
           [this |-> this,
            th |-> [th EXCEPT !.pc = "done", !.ok = TRUE,
                              !.residuals = AbsolutePosePrior_Apply(this, th.residuals)]]

\* One statement of ReprojErrorCostFunctor::operator().
ReprojErrorStep(this, th) ==
    CASE th.pc = "project" ->
           [this |-> this,
            th |-> [th EXCEPT !.pc = "subtract_x",
                              !.residuals =
                                  WriteProjection(this, th.parameters[4],
                                      PointInCam(th.parameters[1], th.parameters[2],
                                                 th.parameters[3]))]]
      [] th.pc = "subtract_x" ->
           [this |-> this,
            th |-> [th EXCEPT !.pc = "subtract_y",
                              !.residuals = SubtractObservedX(this, th.residuals)]]
      [] th.pc = "subtract_y" ->
           [this |-> this,
            th |-> [th EXCEPT !.pc = "done", !.ok = TRUE,
                              !.residuals = SubtractObservedY(this, th.residuals)]]

FirstStatement(this) ==
    CASE this.class = "AbsolutePosePriorCostFunctor" -> "angle_axis"
      [] this.class = "ReprojErrorCostFunctor" -> "project"

FunctorStep(this, th) ==
    CASE this.class = "AbsolutePosePriorCostFunctor" -> AbsolutePosePriorStep(this, th)
      [] this.class = "ReprojErrorCostFunctor" -> ReprojErrorStep(this, th)

\* The solver starts its threads on the cost function it was given.
StartThreads ==
    /\ handle # 0
    /\ threads = <<>>
    /\ threads' = [t \in 1..NumThreads |-> Idle]
    /\ UNCHANGED <<ceres_version_major, heap, handle, created, evaluated>>

\* Thread t calls operator() with its parameter blocks and residual buffer.
BeginEvaluate(t, parameters) ==
    /\ threads[t].pc = "idle"
    /\ threads' = [threads EXCEPT ![t] =
                       [pc |-> FirstStatement(heap[handle].functor_),
                        parameters |-> parameters,
                        given |-> parameters,
                        residuals |-> UnwrittenResiduals(heap[handle].num_residuals),
                        ok |-> FALSE]]
    /\ UNCHANGED <<ceres_version_major, heap, handle, created, evaluated>>

Stepped(t, after) ==
    /\ heap' = [heap EXCEPT ![handle].functor_ = after.this]
    /\ threads' = [threads EXCEPT ![t] = after.th]
    /\ UNCHANGED <<ceres_version_major, handle, created, evaluated>>

\* Thread t executes the next statement of operator().
StepEvaluate(t) ==
    /\ threads[t].pc \notin {"idle", "done"}
    /\ Stepped(t, FunctorStep(heap[handle].functor_, threads[t]))

\* Thread t's caller has taken the residuals; the thread is free again.
EndEvaluate(t) ==
    /\ threads[t].pc = "done"
    /\ threads' = [threads EXCEPT ![t] = Idle]
    /\ UNCHANGED <<ceres_version_major, heap, handle, created, evaluated>>

(***************************************************************************)
(* SpecThreads: an AbsolutePosePriorCostFunctor or a ReprojErrorCostFunctor*)
(* evaluated concurrently.                                                 *)
(***************************************************************************)
Diagonal(d) ==
    Seq_([i \in 1..Len(d) |-> Seq_([j \in 1..Len(d) |->
        IF i = j THEN d[i] ELSE Zero])])

AbsolutePosePriorType ==
    [template |-> "AbsolutePosePriorCostFunctor", CameraModel |-> "none"]

ThreadTypes ==
    {AbsolutePosePriorType,
     CameraType("ReprojErrorCostFunctor", "SimplePinholeCameraModel")}

ThreadArgs(ty) ==
    IF ty = AbsolutePosePriorType
    THEN {<<PoseUnit345,
            Diagonal(<<One, R(4), One, R(4), One, Rat(1, 4)>>)>>}
    ELSE {<<V2(1, -2)>>}

\* The parameter blocks as doubles of type T.
Blocks(parameters) ==
    Seq_([b \in 1..Len(parameters) |-> castV(parameters[b])])

ThreadParameters(ty) ==
    IF ty = AbsolutePosePriorType
    THEN {Blocks(<<QUnit345, V3(1, 0, 2)>>), Blocks(<<QHalfTurnX, V3(0, 1, 1)>>)}
    ELSE {Blocks(<<QIdentity, V3(0, 0, 1), V3(1, 2, 3), V3(2, 1, 1)>>),
          Blocks(<<QUnit345, V3(1, 0, 2), V3(0, 1, 2), V3(1, 0, 0)>>)}

ThreadsCreate ==
    \E ty \in ThreadTypes : \E args \in ThreadArgs(ty) : CallCreate(ty, args)

ThreadsBegin ==
    /\ created.op = "Create"
    /\ threads # <<>>
    /\ \E t \in 1..NumThreads, parameters \in ThreadParameters(created.type) :
           BeginEvaluate(t, parameters)

ThreadsStep == threads # <<>> /\ \E t \in 1..NumThreads : StepEvaluate(t)

ThreadsEnd == threads # <<>> /\ \E t \in 1..NumThreads : EndEvaluate(t)

NextThreads ==
    ThreadsCreate \/ StartThreads \/ ThreadsBegin \/ ThreadsStep \/ ThreadsEnd

SpecThreads == Init /\ [][NextThreads]_vars

\* C6: however the statements of concurrent evaluations of one functor
\* instance interleave, the instance keeps the constants it was constructed
\* with, every caller's parameter blocks keep the values they were passed
\* with, and every call that has returned has returned true with exactly the
\* residuals the same call yields when run alone.  The intermediate values
\* (the angle-axis and translation AbsolutePosePriorCostFunctor keeps in the
\* residual buffer, the projection ReprojErrorCostFunctor does) live in the
\* call's own residual buffer.
C6_ConcurrentEvaluation ==
    (created.op = "Create" /\ threads # <<>>) =>
        /\ heap[handle].functor_ = New_DerivedCostFunctor(created.type, created.args)
        /\ \A t \in 1..Len(threads) :
               threads[t].pc # "idle" =>
                   /\ threads[t].parameters = threads[t].given
                   /\ threads[t].pc = "done" =>
                          /\ threads[t].ok
                          /\ threads[t].residuals =
                                 CallFunctor(New_DerivedCostFunctor(created.type,
                                                                    created.args),
                                             threads[t].given).residuals

\* Two calls on one AbsolutePosePriorCostFunctor with different parameters:
\* one has returned a finite residual while the other is between its writes
\* to the residual buffer.
C6_Interleaved ==
    /\ created.op = "Create"
    /\ created.type = AbsolutePosePriorType
    /\ Len(threads) >= 2
    /\ threads[1].pc = "done"
    /\ \A r \in 1..6 : IsFinite(threads[1].residuals[r].a)
    /\ threads[1].residuals[1].a # Zero
    /\ threads[2].pc = "translation"
    /\ threads[2].given # threads[1].given

(***************************************************************************)
(* SpecDispatch: CreateCameraCostFunction over the camera functor          *)
(* templates and over known and unknown camera-model identifiers.          *)
(***************************************************************************)
CameraModelIds == {-1, 0, 1, 2, 3}

KnownCameraModelIds == {model_id(CameraModel) : CameraModel \in CameraModels}

DispatchArgs(CostFunctor) ==
    CASE CostFunctor \in {"ReprojErrorCostFunctor", "RigReprojErrorCostFunctor"} ->
           {<<V2(1, -2)>>}
      [] CostFunctor \in {"ReprojErrorConstantPoseCostFunctor",
                          "RigReprojErrorConstantRigCostFunctor"} ->
           {<<PoseUnit345, V2(1, -2)>>}
      [] CostFunctor = "ReprojErrorConstantPoint3DCostFunctor" ->
           {<<V2(1, -2), V3(1, 2, 4)>>}

\* Parameter blocks of the given sizes: a block of four ahead of the last
\* block is the quaternion q, and the c-th entry of any other block b is 1
\* or 2 with the parity of base + b + c.
BlocksOfSizes(sizes, q, base) ==
    Seq_([b \in 1..Len(sizes) |->
        IF sizes[b] = 4 /\ b < Len(sizes) THEN q
        ELSE Seq_([c \in 1..sizes[b] |-> R(1 + ((base + b + c) % 2))])])

DispatchCreate ==
    \E CostFunctor \in CameraFunctorTemplates, camera_model_id \in CameraModelIds :
        \E args \in DispatchArgs(CostFunctor) :
            CallCreateCameraCostFunction(CostFunctor, camera_model_id, args)

DispatchEvaluate ==
    /\ created.op = "CreateCameraCostFunction"
    /\ handle # 0
    /\ \E q \in {QIdentity, QHalfTurnX}, want_jacobians \in BOOLEAN :
           CallEvaluate(BlocksOfSizes(heap[handle].parameter_block_sizes, q, 0),
                        want_jacobians)

NextDispatch == DispatchCreate \/ DispatchEvaluate

SpecDispatch == Init /\ [][NextDispatch]_vars

\* The block sizes a camera functor template declares ahead of the camera
\* parameter block.
DeclaredLeadingBlocks(CostFunctor) ==
    CASE CostFunctor = "ReprojErrorCostFunctor" -> <<4, 3, 3>>
      [] CostFunctor = "ReprojErrorConstantPoseCostFunctor" -> <<3>>
      [] CostFunctor = "ReprojErrorConstantPoint3DCostFunctor" -> <<4, 3>>
      [] CostFunctor = "RigReprojErrorCostFunctor" -> <<4, 3, 4, 3, 3>>
      [] CostFunctor = "RigReprojErrorConstantRigCostFunctor" -> <<4, 3, 3>>

\* The handle is the cost function of CostFunctor<CameraModel> constructed
\* from args.
IsSpecialization(cf, CostFunctor, CameraModel, args) ==
    /\ cf.type = "AutoDiffCostFunction"
    /\ cf.functor_.class = CostFunctor
    /\ cf.functor_.CameraModel = CameraModel
    /\ cf.functor_ =
           New_DerivedCostFunctor([template |-> CostFunctor,
                                   CameraModel |-> CameraModel], args)
    /\ cf.num_residuals = 2
    /\ cf.parameter_block_sizes =
           Append(DeclaredLeadingBlocks(CostFunctor), num_params(CameraModel))

\* C4: for a known camera_model_id, CreateCameraCostFunction returns the
\* handle of CostFunctor<CameraModel>::Create(args...) for the one
\* CameraModel whose model_id is camera_model_id: the functor is constructed
\* from the arguments as passed, the last (camera parameter) block has
\* CameraModel::num_params entries, the other blocks and the two residuals
\* are as the template declares, and evaluating the handle evaluates that
\* specialization.
C4_DispatchSelectsModel ==
    (created.op = "CreateCameraCostFunction"
         /\ created.camera_model_id \in KnownCameraModelIds) =>
        /\ created.outcome = "returned"
        /\ handle \in 1..Len(heap)
        /\ \E CameraModel \in CameraModels :
               /\ model_id(CameraModel) = created.camera_model_id
               /\ IsSpecialization(heap[handle], created.CostFunctor, CameraModel,
                                   created.args)
        /\ evaluated.op = "Evaluate" =>
               /\ evaluated.ok
               /\ Len(evaluated.residuals) = 2
               /\ evaluated.want_jacobians =>
                      Len(evaluated.jacobians[Len(evaluated.jacobians)][1]) =
                          num_params(CHOOSE CameraModel \in CameraModels :
                                         model_id(CameraModel) =
                                             created.camera_model_id)

\* CreateCameraCostFunction<ReprojErrorCostFunctor> with the identifier of
\* the second of two four-parameter models (the second known identifier of
\* all) returned a handle that was evaluated with Jacobians.
C4_SecondModelWitness ==
    /\ created.op = "CreateCameraCostFunction"
    /\ created.CostFunctor = "ReprojErrorCostFunctor"
    /\ created.camera_model_id = model_id("SimpleRadialCameraModel")
    /\ handle # 0
    /\ heap[handle].parameter_block_sizes = <<4, 3, 3, 4>>
    /\ evaluated.op = "Evaluate"
    /\ evaluated.want_jacobians

\* C5: with a camera_model_id that no camera model has,
\* CreateCameraCostFunction ends in the switch's default label: the call
\* does not return, so the caller gets no handle, and nothing was
\* constructed.
C5_UnknownModelIsFatal ==
    (created.op = "CreateCameraCostFunction"
         /\ created.camera_model_id \notin KnownCameraModelIds) =>
        /\ created.outcome = "fatal"
        /\ handle = 0
        /\ heap = <<>>

\* CreateCameraCostFunction was called with the unknown identifier 3.
C5_UnknownIdWitness ==
    /\ created.op = "CreateCameraCostFunction"
    /\ created.camera_model_id = 3
    /\ created.camera_model_id \notin KnownCameraModelIds
    /\ created.outcome = "fatal"

(***************************************************************************)
(* SpecReproj: the rig functor and the constant-argument variants, created *)
(* directly and evaluated.                                                 *)
(***************************************************************************)
ReprojModels == {"PinholeCameraModel", "SimpleRadialCameraModel"}

ReprojTemplates == CameraFunctorTemplates \ {"ReprojErrorCostFunctor"}

ReprojPoses ==
    {PoseIdentity, PoseHalfTurnX, PoseNotUnit}

ReprojArgs(template) ==
    CASE template = "RigReprojErrorCostFunctor" -> {<<V2(1, -2)>>}
      [] template \in {"ReprojErrorConstantPoseCostFunctor",
                       "RigReprojErrorConstantRigCostFunctor"} ->
           {<<pose, V2(1, -2)>> : pose \in ReprojPoses}
      [] template = "ReprojErrorConstantPoint3DCostFunctor" ->
           {<<V2(1, -2), V3(1, 2, 4)>>, <<V2(0, 1), V3(0, 0, 1)>>}

\* camera_params: (f, cx, cy, k) or (fx, fy, cx, cy).
ReprojCameraParams == <<Two, One, R(-1), One>>

ReprojParameters(template) ==
    CASE template = "RigReprojErrorCostFunctor" ->
           {<<coeffs(pose.rotation), pose.translation, QHalfTurnX, V3(0, 1, 3),
              V3(1, 2, 1), ReprojCameraParams>> : pose \in ReprojPoses}
             \cup {<<QIdentity, V3(0, 0, 0), QNotUnit, V3(1, 1, 1), V3(2, 0, 1),
                     ReprojCameraParams>>}
      [] template = "ReprojErrorConstantPoseCostFunctor" ->
           {<<V3(1, 2, 1), ReprojCameraParams>>, <<V3(0, 0, 3), ReprojCameraParams>>}
      [] template = "ReprojErrorConstantPoint3DCostFunctor" ->
           {<<QHalfTurnX, V3(0, 1, 3), ReprojCameraParams>>,
            <<QNotUnit, V3(1, 1, 1), ReprojCameraParams>>}
      [] template = "RigReprojErrorConstantRigCostFunctor" ->
           {<<QHalfTurnX, V3(0, 1, 3), V3(1, 2, 1), ReprojCameraParams>>,
            <<QNotUnit, V3(1, 1, 1), V3(2, 0, 1), ReprojCameraParams>>}

ReprojCreate ==
    \E template \in ReprojTemplates, CameraModel \in ReprojModels :
        \E args \in ReprojArgs(template) :
            CallCreate(CameraType(template, CameraModel), args)

ReprojEvaluate ==
    /\ created.op = "Create"
    /\ \E parameters \in ReprojParameters(created.type.template),
          want_jacobians \in BOOLEAN :
           CallEvaluate(parameters, want_jacobians)

NextReproj == ReprojCreate \/ ReprojEvaluate

SpecReproj == Init /\ [][NextReproj]_vars

\* What the free functor of the given template, constructed from args for
\* the created camera model, yields on parameters.
FreeEvaluation(template, args, parameters) ==
    Evaluate(AutoDiffCostFunctor_Create(
                 <<>>, CameraType(template, created.type.CameraModel), args).heap,
             1, parameters, evaluated.want_jacobians)

\* R * X + t with R the rotation matrix of the quaternion block q.
MatrixTransform(q, t, X) ==
    VAdd(MatVec(toRotationMatrix(EigenQuaternionMap(castV(q))), X), castV(t))

\* The projection, minus the observation, of the point X taken through
\* rig_from_world and then cam_from_rig.
RigFormula(this, p) ==
    ValueV(ProjectAndSubtract(this, castV(p[6]),
               MatrixTransform(p[1], p[2],
                   MatrixTransform(p[3], p[4], castV(p[5])))).residuals)

IsIdentityExtrinsic(p) ==
    /\ p[1] = <<Zero, Zero, Zero, One>>
    /\ p[2] = <<Zero, Zero, Zero>>

\* C7: RigReprojErrorCostFunctor with an identity cam_from_rig (identity
\* rotation, zero translation) yields the residual ReprojErrorCostFunctor
\* yields with rig_from_world as the camera pose, for the same point,
\* camera parameters and observation; and for every cam_from_rig its
\* residual is the projection of R_cr (R_rw X + t_rw) + t_cr minus the
\* observation.
C7_RigEqualsReproj ==
    (created.op = "Create" /\ created.type.template = "RigReprojErrorCostFunctor"
         /\ evaluated.op = "Evaluate") =>
        /\ evaluated.ok
        /\ evaluated.residuals =
               RigFormula(heap[handle].functor_, evaluated.parameters)
        /\ IsIdentityExtrinsic(evaluated.parameters) =>
               evaluated.residuals =
                   FreeEvaluation("ReprojErrorCostFunctor", created.args,
                                  SubSeq(evaluated.parameters, 3, 6)).residuals

\* The rig functor was evaluated with an identity cam_from_rig and a
\* rig_from_world that is not the identity, and gave a finite residual.
C7_IdentityRigWitness ==
    /\ created.op = "Create"
    /\ created.type.template = "RigReprojErrorCostFunctor"
    /\ evaluated.op = "Evaluate"
    /\ IsIdentityExtrinsic(evaluated.parameters)
    /\ evaluated.parameters[3] # evaluated.parameters[1]
    /\ IsFinite(evaluated.residuals[1])
    /\ IsFinite(evaluated.residuals[2])

\* The stored rotation as the coefficient block <<x, y, z, w>> that
\* EigenQuaternionMap reads.
StoredRotation(pose) ==
    <<pose.rotation.x, pose.rotation.y, pose.rotation.z, pose.rotation.w>>

\* The free functor's output with only the Jacobian blocks listed in keep.
KeepBlocks(out, keep) ==
    [ok |-> out.ok, residuals |-> out.residuals,
     jacobians |-> IF out.jacobians = <<>> THEN <<>>
                   ELSE Seq_([i \in 1..Len(keep) |-> out.jacobians[keep[i]]])]

\* The free variant's output on the constant and the free blocks of the
\* last Evaluate, restricted to the free blocks.
SubstitutedEvaluation(template, args, p) ==
    CASE template = "ReprojErrorConstantPoseCostFunctor" ->
           KeepBlocks(FreeEvaluation("ReprojErrorCostFunctor", <<args[2]>>,
                          <<StoredRotation(args[1]), args[1].translation,
                            p[1], p[2]>>),
                      <<3, 4>>)
      [] template = "ReprojErrorConstantPoint3DCostFunctor" ->
           KeepBlocks(FreeEvaluation("ReprojErrorCostFunctor", <<args[1]>>,
                          <<p[1], p[2], args[2], p[3]>>),
                      <<1, 2, 4>>)
      [] template = "RigReprojErrorConstantRigCostFunctor" ->
           KeepBlocks(FreeEvaluation("RigReprojErrorCostFunctor", <<args[2]>>,
                          <<StoredRotation(args[1]), args[1].translation,
                            p[1], p[2], p[3], p[4]>>),
                      <<3, 4, 5, 6>>)

SameOutput(out) ==
    /\ evaluated.ok = out.ok
    /\ evaluated.residuals = out.residuals
    /\ evaluated.jacobians = out.jacobians

\* C8: each constant-argument variant yields what its free variant yields
\* with the constant passed in the constant's block positions, the rotation
\* as the coefficient block <<x, y, z, w>>, and the free blocks in their
\* order: the same flag, the same residuals, and the same Jacobian with
\* respect to the free blocks.
C8_ConstantVariants ==
    (created.op = "Create"
         /\ created.type.template \in {"ReprojErrorConstantPoseCostFunctor",
                                       "ReprojErrorConstantPoint3DCostFunctor",
                                       "RigReprojErrorConstantRigCostFunctor"}
         /\ evaluated.op = "Evaluate") =>
        SameOutput(SubstitutedEvaluation(created.type.template, created.args,
                                         evaluated.parameters))

\* A constant-pose functor whose pose has w different from x was evaluated
\* with Jacobians and gave a finite non-zero residual.
C8_ConstantPoseWitness ==
    /\ created.op = "Create"
    /\ created.type.template = "ReprojErrorConstantPoseCostFunctor"
    /\ created.args[1].rotation.w # created.args[1].rotation.x
    /\ evaluated.op = "Evaluate"
    /\ evaluated.want_jacobians
    /\ IsFinite(evaluated.residuals[1])
    /\ evaluated.residuals[1] # Zero

(***************************************************************************)
(* SpecSampson: the Sampson functor over correspondences and relative      *)
(* poses that include exact epipolar consistency and the degenerate        *)
(* configurations.                                                         *)
(***************************************************************************)
SampsonPoints == {V2(0, 0), V2(1, 2)}

SampsonRotations == {QIdentity, QUnit345, QNotUnit}

SampsonTranslations == {V3(0, 0, 0), V3(0, 0, 1), V3(1, 2, 3)}

SampsonCreate ==
    \E x1 \in SampsonPoints, x2 \in SampsonPoints : CallCreate(SampsonType, <<x1, x2>>)

SampsonEvaluate ==
    /\ created.op = "Create"
    /\ \E q \in SampsonRotations, t \in SampsonTranslations,
          want_jacobians \in BOOLEAN :
           CallEvaluate(<<q, t>>, want_jacobians)

NextSampson == SampsonCreate \/ SampsonEvaluate

SpecSampson == Init /\ [][NextSampson]_vars

\* E = [t]_x R for the relative pose of the last Evaluate.
EvaluatedE ==
    MatMul(CrossProductMatrix(castV(evaluated.parameters[2])),
           toRotationMatrix(EigenQuaternionMap(castV(evaluated.parameters[1]))))

\* The arguments of the Create call that reach the functor's constructor.
LeafArgs == SubSeq(created.args, Depth(created.type) + 1, Len(created.args))

\* The homogeneous correspondences given at construction.
CreatedX1 == <<T(LeafArgs[1][1]), T(LeafArgs[1][2]), T(One)>>

CreatedX2 == <<T(LeafArgs[2][1]), T(LeafArgs[2][2]), T(One)>>

\* x2^T E x1
EpipolarProduct == Dot(CreatedX2, MatVec(EvaluatedE, CreatedX1)).a

\* (E x1)_0^2 + (E x1)_1^2 + (E^T x2)_0^2 + (E^T x2)_1^2
EvaluatedDenominator ==
    SampsonDenominator(MatVec(EvaluatedE, CreatedX1),
                       MatVec(transpose(EvaluatedE), CreatedX2)).a

SampsonEvaluated ==
    /\ created.op = "Create"
    /\ Leaf(created.type) = SampsonType
    /\ evaluated.op = "Evaluate"

\* C9: when x2^T E x1 = 0 for E = [t]_x R, the Sampson residual is zero
\* provided the denominator is not zero; when the denominator is zero as
\* well, the residual is 0/0, a NaN.
C9_EpipolarZero ==
    (SampsonEvaluated /\ created.type = SampsonType /\ EpipolarProduct = Zero) =>
        IF EvaluatedDenominator = Zero
        THEN IsNaN(evaluated.residuals[1])
        ELSE evaluated.residuals[1] = Zero

\* The statement without the proviso: the residual is zero whenever
\* x2^T E x1 = 0.
C9_EpipolarZeroAlways ==
    (SampsonEvaluated /\ created.type = SampsonType /\ EpipolarProduct = Zero) =>
        evaluated.residuals[1] = Zero

\* An epipolar-consistent pair under a pose with a non-zero translation and
\* a rotation other than the identity, with a non-zero denominator.
C9_ConsistentWitness ==
    /\ SampsonEvaluated
    /\ created.type = SampsonType
    /\ EpipolarProduct = Zero
    /\ EvaluatedDenominator # Zero
    /\ evaluated.parameters[1] # <<Zero, Zero, Zero, One>>
    /\ evaluated.parameters[2] # <<Zero, Zero, Zero>>
    /\ evaluated.want_jacobians
    /\ evaluated.residuals[1] = Zero

(***************************************************************************)
(* SpecFunctors: every functor of the file, and a wrapped one, evaluated   *)
(* on regular and on degenerate inputs.                                    *)
(***************************************************************************)
PriorType(template) == [template |-> template, CameraModel |-> "none"]

FunctorTypes ==
    {CameraType(template, "SimplePinholeCameraModel") :
         template \in CameraFunctorTemplates}
        \cup {SampsonType, IsotropicType(SampsonType),
              PriorType("AbsolutePosePriorCostFunctor"),
              PriorType("AbsolutePosePositionPriorCostFunctor"),
              PriorType("RelativePosePriorCostFunctor"),
              PriorType("Point3DAlignmentCostFunctor")}

FunctorArgs(ty) ==
    CASE ty.template \in CameraFunctorTemplates -> DispatchArgs(ty.template)
      [] ty = SampsonType -> {<<V2(0, 0), V2(0, 0)>>}
      [] ty = IsotropicType(SampsonType) -> {<<Two, V2(0, 0), V2(0, 0)>>}
      [] ty.template \in {"AbsolutePosePriorCostFunctor",
                          "RelativePosePriorCostFunctor"} ->
           {<<PoseHalfTurnX,
              Diagonal(<<One, One, One, R(4), R(4), R(4)>>)>>,
            <<PoseIdentity,
              Diagonal(<<Zero, One, R(-1), One, One, One>>)>>}
      [] ty.template \in {"AbsolutePosePositionPriorCostFunctor",
                          "Point3DAlignmentCostFunctor"} ->
           {<<V3(1, 0, 2), Diagonal(<<One, R(4), Rat(1, 4)>>)>>}

QZero == <<Zero, Zero, Zero, Zero>>

\* Parameter blocks of the given sizes whose quaternion blocks are q and
\* whose other blocks hold x in every entry but the last, which holds last.
UniformBlocks(sizes, q, x, last) ==
    Seq_([b \in 1..Len(sizes) |->
        IF sizes[b] = 4 /\ b < Len(sizes) THEN q
        ELSE Seq_([c \in 1..sizes[b] |-> IF c = sizes[b] THEN last ELSE x])])

FunctorsCreate ==
    \E ty \in FunctorTypes : \E args \in FunctorArgs(ty) : CallCreate(ty, args)

FunctorsEvaluate ==
    /\ created.op = "Create"
    /\ \E q \in {QIdentity, QHalfTurnX, QZero},
          x \in {<<Zero, Zero>>, <<Zero, One>>, <<One, One>>},
          want_jacobians \in BOOLEAN :
           CallEvaluate(UniformBlocks(heap[handle].parameter_block_sizes, q,
                                      x[1], x[2]),
                        want_jacobians)

NextFunctors == FunctorsCreate \/ FunctorsEvaluate

SpecFunctors == Init /\ [][NextFunctors]_vars

\* C10: every evaluation returns true, whatever the input; in the degenerate
\* Sampson configuration, where the denominator is zero, it returns true as
\* well and the residual is not finite (NaN or an infinity).
C10_AlwaysSucceeds ==
    evaluated.op = "Evaluate" =>
        /\ evaluated.ok
        /\ (SampsonEvaluated /\ EvaluatedDenominator = Zero) =>
               ~IsFinite(evaluated.residuals[1])

\* The Sampson functor was evaluated with a zero denominator under a
\* non-zero translation (along the optical axis, both points at the centre)
\* and returned true with a NaN residual.
C10_DegenerateSampsonWitness ==
    /\ SampsonEvaluated
    /\ created.type = SampsonType
    /\ evaluated.parameters[2] # <<Zero, Zero, Zero>>
    /\ EvaluatedDenominator = Zero
    /\ evaluated.ok
    /\ IsNaN(evaluated.residuals[1])

(***************************************************************************)
(* SpecPosePrior: a RelativePosePriorCostFunctor or an                     *)
(* AbsolutePosePriorCostFunctor created from a prior pose and a            *)
(* covariance, and evaluated at absolute poses.                            *)
(***************************************************************************)
\* Eigen's Quaternion::normalized(): the coefficients over the norm n.
normalizedFrom(q, n) ==
    [w |-> JDiv(q.w, n), x |-> JDiv(q.x, n), y |-> JDiv(q.y, n), z |-> JDiv(q.z, n)]

normalized(q) == normalizedFrom(q, JSqrt(squaredNorm(q)))

\* colmap's operator*(c_from_b, b_from_a) on Rigid3d:
\* rotation = (c_from_b.rotation * b_from_a.rotation).normalized(),
\* translation = c_from_b.translation + c_from_b.rotation * b_from_a.translation.
Compose(c_from_b, b_from_a) ==
    [rotation |-> ValueQ(normalized(QuatMul(castQ(c_from_b.rotation),
                                            castQ(b_from_a.rotation)))),
     translation |->
         ValueV(VAdd(castV(c_from_b.translation),
                     QuatRotate(castQ(c_from_b.rotation),
                                castV(b_from_a.translation))))]

QHalfTurnY == <<Zero, One, Zero, Zero>>

\* Absolute poses as parameter blocks <<rotation, translation>>.
PriorPoses ==
    {<<QIdentity, V3(0, 0, 0)>>, <<QUnit345, V3(0, 1, 0)>>, <<QHalfTurnY, V3(1, 0, 2)>>}

\* The poses of the absolute prior: two of them share a rotation and differ in
\* the translation.
AbsolutePoses == PriorPoses \cup {<<QUnit345, V3(1, 0, 2)>>}

PoseOf(rotation, translation) == Rigid3d(rotation, translation)

\* One positive-definite covariance and one that is singular.
PriorCovariances ==
    {Diagonal(<<One, R(4), One, R(4), One, Rat(1, 4)>>),
     Diagonal(<<Zero, One, One, One, One, One>>)}

RelativePosePriorType == PriorType("RelativePosePriorCostFunctor")

\* The relative poses i_from_world * inverse(j_from_world) of the poses.
RelativePriors ==
    {Compose(PoseOf(i[1], i[2]), Inverse(PoseOf(j[1], j[2]))) :
         i \in PriorPoses, j \in PriorPoses}

PosePriorCreate ==
    \/ \E prior \in RelativePriors, cov \in PriorCovariances :
           CallCreate(RelativePosePriorType, <<prior, cov>>)
    \/ \E prior \in AbsolutePoses, cov \in PriorCovariances :
           CallCreate(AbsolutePosePriorType, <<PoseOf(prior[1], prior[2]), cov>>)

\* Each created cost function is evaluated once: an evaluation changes nothing
\* but the record of its result, so later evaluations reach the same states.
PosePriorEvaluateRelative ==
    /\ created.op = "Create"
    /\ evaluated = None
    /\ created.type = RelativePosePriorType
    /\ \E i \in PriorPoses, j \in PriorPoses, want_jacobians \in BOOLEAN :
           CallEvaluate(<<i[1], i[2], j[1], j[2]>>, want_jacobians)

PosePriorEvaluateAbsolute ==
    /\ created.op = "Create"
    /\ evaluated = None
    /\ created.type = AbsolutePosePriorType
    /\ \E p \in AbsolutePoses, want_jacobians \in BOOLEAN :
           CallEvaluate(<<p[1], p[2]>>, want_jacobians)

NextPosePrior ==
    PosePriorCreate \/ PosePriorEvaluateRelative \/ PosePriorEvaluateAbsolute

SpecPosePrior == Init /\ [][NextPosePrior]_vars

\* The block holds a unit quaternion.
IsUnitQuaternion(q) ==
    RAdd(RAdd(RAdd(RMul(q[1], q[1]), RMul(q[2], q[2])), RMul(q[3], q[3])),
         RMul(q[4], q[4])) = One

\* A diagonal covariance is positive definite when its diagonal is positive.
IsPositiveDefinite(covariance) ==
    \A i \in 1..Len(covariance) : \A j \in 1..Len(covariance) :
        IF i = j THEN RGt(covariance[i][i], Zero) ELSE covariance[i][j] = Zero

ZeroVector(n) == Seq_([i \in 1..n |-> Zero])

IdentityRotation == [w |-> One, x |-> Zero, y |-> Zero, z |-> Zero]

RelativeEvaluated ==
    /\ evaluated.op = "Evaluate"
    /\ created.type = RelativePosePriorType

\* The evaluated poses are unit-quaternion poses i, j with
\* i_from_world * inverse(j_from_world) equal to the supplied prior, and the
\* covariance is positive definite.
RelativeAtPrior ==
    /\ RelativeEvaluated
    /\ IsUnitQuaternion(evaluated.parameters[1])
    /\ IsUnitQuaternion(evaluated.parameters[3])
    /\ IsPositiveDefinite(created.args[2])
    /\ created.args[1] =
           Compose(PoseOf(evaluated.parameters[1], evaluated.parameters[2]),
                   Inverse(PoseOf(evaluated.parameters[3], evaluated.parameters[4])))

\* R_i * R_j^-1 of the evaluated poses.
EvaluatedIFromJ ==
    QuatMul(castQ(PoseOf(evaluated.parameters[1], evaluated.parameters[2]).rotation),
            QuatInverse(castQ(PoseOf(evaluated.parameters[3],
                                     evaluated.parameters[4]).rotation)))

\* t_i + R_i * R_j^-1 * (t_j_from_i_prior - t_j) with the stored prior.
RelativeTranslationTerm(i_from_j_rotation, j_from_i_prior) ==
    ValueV(VAdd(castV(evaluated.parameters[2]),
                QuatRotate(i_from_j_rotation,
                           VSub(castV(j_from_i_prior.translation),
                                castV(evaluated.parameters[4])))))

\* C11: a RelativePosePriorCostFunctor whose prior is
\* i_from_world * inverse(j_from_world), for unit quaternions and a
\* positive-definite covariance, stores the inverse of the prior, and at
\* those poses (R_i * R_j^-1) * R_j_from_i_prior is the identity, the
\* translation term t_i + R_i * R_j^-1 * (t_j_from_i_prior - t_j) is zero,
\* and the evaluation returns the zero 6-vector.
C11_RelativePriorZero ==
    RelativeAtPrior =>
        /\ heap[handle].functor_.j_from_i_prior_ = Inverse(created.args[1])
        /\ ValueQ(QuatMul(EvaluatedIFromJ,
                          castQ(heap[handle].functor_.j_from_i_prior_.rotation)))
               = IdentityRotation
        /\ RelativeTranslationTerm(EvaluatedIFromJ,
                                   heap[handle].functor_.j_from_i_prior_)
               = ZeroVector(3)
        /\ evaluated.ok
        /\ evaluated.residuals = ZeroVector(6)

\* Two different poses with non-commuting rotations were evaluated against
\* the prior made from them, and the residual was the zero 6-vector.
C11_DistinctPosesWitness ==
    /\ RelativeAtPrior
    /\ evaluated.parameters[1] = QUnit345
    /\ evaluated.parameters[3] = QHalfTurnY
    /\ evaluated.want_jacobians
    /\ evaluated.residuals = ZeroVector(6)

AbsoluteEvaluated ==
    /\ evaluated.op = "Evaluate"
    /\ created.type = AbsolutePosePriorType

\* The prior has a unit quaternion and the covariance is positive definite.
AbsoluteWellFormed ==
    /\ AbsoluteEvaluated
    /\ IsUnitQuaternion(coeffs(created.args[1].rotation))
    /\ IsPositiveDefinite(created.args[2])

\* The estimated pose is the prior pose.
AbsoluteAtPrior ==
    /\ AbsoluteWellFormed
    /\ created.args[1] = PoseOf(evaluated.parameters[1], evaluated.parameters[2])

\* estimated_rotation * inverse(prior_rotation).
AbsoluteRotationTerm ==
    ValueQ(QuatMul(castQ(PoseOf(evaluated.parameters[1],
                                evaluated.parameters[2]).rotation),
                   QuatInverse(castQ(created.args[1].rotation))))

\* estimated_translation + estimated_rotation * translation(Inverse(prior)).
AbsoluteTranslationTerm ==
    ValueV(VAdd(castV(evaluated.parameters[2]),
                QuatRotate(castQ(PoseOf(evaluated.parameters[1],
                                        evaluated.parameters[2]).rotation),
                           castV(Inverse(created.args[1]).translation))))

\* Entry k of the square-root information of a diagonal covariance.
SqrtInformationEntry(covariance, k) == Sqrt(RRecip(covariance[k][k]))

\* Entries 4..6 of the residual are the translation term scaled by entries
\* 4..6 of the square-root information.
TranslationBlockSecond(term) ==
    \A k \in 1..3 :
        evaluated.residuals[3 + k] =
            RMul(SqrtInformationEntry(created.args[2], 3 + k), term[k])

\* C12: an AbsolutePosePriorCostFunctor with a unit-quaternion prior and a
\* positive-definite covariance stores Inverse(prior), and its residual has
\* the rotation block first and the translation block second: entries 4..6
\* are estimated_translation + estimated_rotation * translation(Inverse(prior))
\* scaled by the square-root information, and entries 1..3 are zero whenever
\* estimated_rotation * inverse(prior_rotation) is the identity.  Evaluated at
\* the prior pose, the rotation term is the identity, the translation term
\* is zero and the residual is the zero 6-vector.
C12_AbsolutePriorZero ==
    /\ AbsoluteWellFormed =>
           /\ heap[handle].functor_.world_from_cam_prior_ = Inverse(created.args[1])
           /\ evaluated.ok
           /\ TranslationBlockSecond(AbsoluteTranslationTerm)
           /\ AbsoluteRotationTerm = IdentityRotation =>
                  SubSeq(evaluated.residuals, 1, 3) = ZeroVector(3)
    /\ AbsoluteAtPrior =>
           /\ AbsoluteRotationTerm = IdentityRotation
           /\ AbsoluteTranslationTerm = ZeroVector(3)
           /\ evaluated.residuals = ZeroVector(6)

\* A prior with a non-trivial rotation and translation was evaluated at the
\* prior pose itself, with Jacobians, and the residual was the zero 6-vector.
C12_AtPriorWitness ==
    /\ AbsoluteAtPrior
    /\ evaluated.parameters[1] = QUnit345
    /\ evaluated.parameters[2] # ZeroVector(3)
    /\ evaluated.want_jacobians
    /\ evaluated.residuals = ZeroVector(6)

=============================================================================
